---- MODULE Spec2Model ----
(***************************************************************************)
(* Stock reconciliation for packaging (productService in                   *)
(* src/lib/appwrite/products.ts): requirement aggregation, validation,     *)
(* deduction with compensating rollback, and restoration, over a document  *)
(* store whose every call is an await point and may fail.                  *)
(***************************************************************************)
EXTENDS Integers, Sequences, FiniteSets, TLC

VARIABLES
    products,   \* ids of the Product documents that exist in the store
    stock,      \* stock_quantity persisted for each product id
    components, \* the ProductComponent documents (bundle membership edges)
    call,       \* the in-flight productService calls, one record per caller
    del,        \* the in-flight delete or deleteAllForParent call
    gwc,        \* the in-flight productService.getWithComponents call
    jobs,       \* the documents of the import_jobs collection, in creation order
    disp,       \* the in-flight execution of the job dispatcher function
    task,       \* the run of the report-export task: its attempts and onFailure
    font        \* the module state of pdf-fonts.ts and its callers

vars == <<products, stock, components, call, del, gwc, jobs, disp, task, font>>

\* the background jobs and the font loader, which no productService call touches
background == <<jobs, disp, task, font>>

\* what no step of a stock call touches
other == <<components, del, gwc, background>>

-----------------------------------------------------------------------------
(* Bounds of the model *)

MaxStock == 2
MaxItems == 3
MaxBatch == 2
MaxFaults == 1
MaxCallers == 3

-----------------------------------------------------------------------------
(* The store's documents *)

ProductIds == {"A", "B", "C"}
Calls == {1, 2}

BarcodeOf(p) == CASE p = "A" -> "a1" [] p = "B" -> "b1" [] OTHER -> "c1"
NameOf(p) == CASE p = "A" -> "Alpha" [] p = "B" -> "Beta" [] OTHER -> "Gamma"

\* stock values a caller may hand to create/update/updateStock, or find stored
StockValues == (0 - 1)..MaxStock

\* the Product document the store returns for id p
Doc(p) ==
    [id |-> p, barcode |-> BarcodeOf(p), name |-> NameOf(p),
     stock_quantity |-> stock[p]]

\* the name a product had when a caller fetched it, before it was renamed
OldNameOf(p) == CASE p = "A" -> "Alfa" [] p = "B" -> "Bravo" [] OTHER -> "Golf"

\* a Product snapshot a caller fetched earlier and kept: a packaging item's
\* bundle_components carry such snapshots, whose name and stock may be out of date
Snapshot(p) ==
    [id |-> p, barcode |-> BarcodeOf(p), name |-> OldNameOf(p),
     stock_quantity |-> MaxStock + 1]

\* a ProductComponent document
Edge(id, parent, child, q) ==
    [id |-> id, parent_product_id |-> parent, child_product_id |-> child,
     quantity |-> q]

\* the edges of the bundles the packaging items below were expanded from
BundleEdges ==
    { Edge("e1", "K1", "A", 2), Edge("e2", "K2", "B", 1), Edge("e3", "K2", "C", 2) }

Null == [id |-> "null"]

\* databaseService.listDocuments(PRODUCTS, [equal('barcode', b), limit(1)]).documents[0] ?? null
getByBarcode(b) ==
    IF \E p \in products : BarcodeOf(p) = b
    THEN Doc(CHOOSE p \in products : BarcodeOf(p) = b)
    ELSE Null

Max0(n) == IF n < 0 THEN 0 ELSE n

\* variant of updateStockValue: the quantity is persisted as given
updateStockValueAsGiven(newQuantity) == newQuantity

\* the stock_quantity productService.updateStock persists for newQuantity
updateStockValue(newQuantity) == Max0(newQuantity)

-----------------------------------------------------------------------------
(* Packaging items *)

SingleItem(b) ==
    [product_barcode |-> b, is_bundle |-> FALSE, has_components |-> FALSE,
     bundle_components |-> <<>>]

BundleItem(b, comps) ==
    [product_barcode |-> b, is_bundle |-> TRUE, has_components |-> TRUE,
     bundle_components |-> comps]

Comp(p, q) == [product |-> Snapshot(p), quantity |-> q]

\* items without bundles: three known barcodes and one no product has
SingleItems == {SingleItem(b) : b \in {"a1", "b1", "c1", "zz"}}

BundleItems ==
    { BundleItem("k1", <<Comp("A", 2)>>),
      BundleItem("k2", <<Comp("B", 1), Comp("C", 2)>>),
      BundleItem("k3", <<Comp("A", 1), Comp("A", 1)>>),
      BundleItem("k4", <<>>),
      \* is_bundle set, bundle_components missing
      [product_barcode |-> "a1", is_bundle |-> TRUE, has_components |-> FALSE,
       bundle_components |-> <<>>] }

ItemPool == SingleItems \cup BundleItems

SeqsUpTo(S, n) == UNION {[1..k -> S] : k \in 0..n}

-----------------------------------------------------------------------------
(* calculateStockRequirements: the requirement map, in insertion order *)

ReqIndex(req, id) ==
    IF \E k \in 1..Len(req) : req[k].id = id
    THEN CHOOSE k \in 1..Len(req) : req[k].id = id
    ELSE 0

\* variant of AddRequired: existing.required = n, overwriting instead of adding
AddRequiredBroken(req, product, n) ==
    LET k == ReqIndex(req, product.id)
    IN IF k > 0
       THEN [req EXCEPT ![k].required = n]
       ELSE Append(req, [id |-> product.id, product |-> product, required |-> n])

\* variant of AddRequired: a new entry goes to the front of the map
AddRequiredFirst(req, product, n) ==
    LET k == ReqIndex(req, product.id)
    IN IF k > 0
       THEN [req EXCEPT ![k].required = @ + n]
       ELSE <<[id |-> product.id, product |-> product, required |-> n]>> \o req

\* requirements.get(id) ? existing.required += n : requirements.set(id, {product, required: n})
AddRequired(req, product, n) ==
    LET k == ReqIndex(req, product.id)
    IN IF k > 0
       THEN [req EXCEPT ![k].required = @ + n]
       ELSE Append(req, [id |-> product.id, product |-> product, required |-> n])

RECURSIVE AddComponents(_, _, _)
AddComponents(req, comps, j) ==
    IF j > Len(comps) THEN req
    ELSE AddComponents(AddRequired(req, comps[j].product, comps[j].quantity),
                       comps, j + 1)

\* variant of TakesBundleBranch: is_bundle alone decides
TakesBundleBranchAnyBundle(item) == item.is_bundle

\* item.is_bundle && item.bundle_components
TakesBundleBranch(item) == item.is_bundle /\ item.has_components

\* variant of AddItem: a product already in the map is not counted again
AddItemOnce(req, item, found) ==
    IF TakesBundleBranch(item)
    THEN AddComponents(req, item.bundle_components, 1)
    ELSE IF found # Null /\ ReqIndex(req, found.id) = 0
         THEN AddRequired(req, found, 1)
         ELSE req

\* one iteration of the loop over items; found is getByBarcode's answer
AddItem(req, item, found) ==
    IF TakesBundleBranch(item)
    THEN AddComponents(req, item.bundle_components, 1)
    ELSE IF found # Null THEN AddRequired(req, found, 1) ELSE req

RECURSIVE AggregateFrom(_, _, _)
AggregateFrom(req, items, i) ==
    IF i > Len(items) THEN req
    ELSE AggregateFrom(AddItem(req, items[i], getByBarcode(items[i].product_barcode)),
                       items, i + 1)

\* the whole of calculateStockRequirements on a store that does not fail
calculateStockRequirements(items) == AggregateFrom(<<>>, items, 1)

-----------------------------------------------------------------------------
(* One productService call: its locals, and what it has asked of the store *)

ZeroStock == [p \in ProductIds |-> 0]

NoResult == [none |-> TRUE]

IdleCall ==
    [op |-> "none", pc |-> "idle", items |-> <<>>, i |-> 0, req |-> <<>>,
     idx |-> 0, pending |-> 0, errors |-> <<>>, updatedProducts |-> <<>>,
     ridx |-> 0, insufficientStock |-> <<>>, result |-> NoResult,
     \* bookkeeping of the run, read by the properties only
     log |-> <<>>, stock0 |-> ZeroStock, faults |-> 0, rbFailed |-> FALSE,
     chained |-> FALSE, base |-> ZeroStock, again |-> FALSE, prior |-> NoResult]

\* a productService.delete call: its locals and, for the properties, the edges
\* found stored when it began and the deletes it has asked of the store
IdleDel ==
    [pc |-> "idle", productId |-> "none", parentComponents |-> <<>>,
     childComponents |-> <<>>, list |-> <<>>, k |-> 0,
     components0 |-> {}, asked |-> <<>>, faults |-> 0, delayMs |-> 0]

\* a productService.getWithComponents call: its locals and, for the
\* properties, the listings and the fetches it has asked of the store
IdleGwc ==
    [pc |-> "idle", productId |-> "none", product |-> Null, edges |-> <<>>,
     pending |-> {}, fetched |-> <<>>, result |-> NoResult,
     lists |-> <<>>, gets |-> <<>>, faults |-> 0]

\* an execution of the job dispatcher: the parsed body, the job it created,
\* its response and, for the properties, the tasks it has triggered and the
\* jobs that were stored when it began
IdleDisp ==
    [pc |-> "idle", body |-> [kind |-> "none"], jobId |-> 0, response |-> NoResult,
     triggered |-> <<>>, faults |-> 0, jobs0 |-> <<>>]

\* the run of a report-export task: the payload, the packaging data in its date
\* range, the attempt and its locals, and, for the properties, the status
\* writes and the reads the attempt has asked of the store
IdleTask ==
    [pc |-> "idle", jobId |-> 0, data |-> <<>>, badDate |-> FALSE, attempt |-> 0,
     offset |-> 0, allRecords |-> <<>>, rec |-> 0, allItems |-> <<>>,
     uniqueBarcodes |-> <<>>, bidx |-> 0, productMap |-> <<>>,
     fileId |-> "", error |-> "", result |-> NoResult,
     faults |-> 0, log |-> <<>>, uploads |-> 0, emptyRuns |-> 0]

\* the callers of loadChineseFont, each with a document of its own
FontCallers == 1..MaxCallers

\* a caller that has not called loadChineseFont yet
IdleCaller == [pc |-> "idle", promise |-> 0, fontBase64 |-> Null, result |-> FALSE]

\* pdf-fonts.ts when the module has just been loaded: its three variables, the
\* promises getFontBase64 has made, the callers and, for the properties, the
\* fetches issued so far
IdleFont ==
    [cachedFontBase64 |-> Null, fontLoadPromise |-> 0, fontLoaded |-> FALSE,
     promises |-> <<>>, callers |-> [c \in FontCallers |-> IdleCaller],
     fetches |-> <<>>]

BackgroundIdle ==
    /\ jobs = <<>>
    /\ disp = IdleDisp
    /\ task = IdleTask
    /\ font = IdleFont

Resting == {"idle", "done", "thrown"}

Ops == {"aggregate", "validate", "deduct", "restore"}

AllIdle == \A d \in Calls : call[d].pc = "idle"

\* the requirement-map entry the per-product loop is at
Cur(r) == r.req[r.idx]

LogGet(r, doc) == Append(r.log, [kind |-> "get", id |-> doc.id, doc |-> doc])

LogUpdate(r, id, val, phase, ok) ==
    Append(r.log, [kind |-> "update", id |-> id, val |-> val, phase |-> phase, ok |-> ok])

\* variant of MutationResult: success whatever the errors
MutationResultAlways(errors) == [success |-> TRUE, errors |-> errors]

\* return { success: errors.length === 0, errors }
MutationResult(errors) == [success |-> Len(errors) = 0, errors |-> errors]

\* return { valid: insufficientStock.length === 0, insufficientStock }
ValidationResult(short) == [valid |-> Len(short) = 0, insufficientStock |-> short]

Return(r) ==
    [r EXCEPT !.pc = "done",
              !.result = CASE r.op = "aggregate" -> [requirements |-> r.req]
                           [] r.op = "validate" -> ValidationResult(r.insufficientStock)
                           [] OTHER -> MutationResult(r.errors)]

\* variant of NeedsRollback: the rollback loop is never entered
NeedsRollbackNever(errors) == FALSE

\* if (errors.length > 0): the rollback loop is entered
NeedsRollback(errors) == Len(errors) > 0

\* the rollback loop, up to its next await
RollbackSync(r) ==
    IF r.ridx > Len(r.updatedProducts) THEN Return(r) ELSE [r EXCEPT !.pc = "rollback"]

\* variant of LoopSync: a deduction leaves the loop at its first error
LoopSyncFailFast(r) ==
    IF r.op = "deduct" /\ NeedsRollback(r.errors)
    THEN RollbackSync([r EXCEPT !.ridx = 1])
    ELSE IF r.idx <= Len(r.req) THEN [r EXCEPT !.pc = "get"] ELSE Return(r)

\* variant of LoopSync: a validation that has found a shortfall throws
LoopSyncShortThrows(r) ==
    IF r.op = "validate" /\ Len(r.insufficientStock) > 0
    THEN [r EXCEPT !.pc = "thrown"]
    ELSE IF r.idx <= Len(r.req) THEN [r EXCEPT !.pc = "get"]
         ELSE IF r.op = "deduct" /\ NeedsRollback(r.errors)
              THEN RollbackSync([r EXCEPT !.ridx = 1])
              ELSE Return(r)

\* the per-product loop, up to its next await
LoopSync(r) ==
    IF r.idx <= Len(r.req) THEN [r EXCEPT !.pc = "get"]
    ELSE IF r.op = "deduct" /\ NeedsRollback(r.errors)
         THEN RollbackSync([r EXCEPT !.ridx = 1])
         ELSE Return(r)

\* the loop over items, up to its next await: bundle items need no store call
RECURSIVE AggSync(_)
AggSync(r) ==
    IF r.i > Len(r.items)
    THEN IF r.op = "aggregate" THEN Return(r) ELSE LoopSync([r EXCEPT !.idx = 1])
    ELSE IF TakesBundleBranch(r.items[r.i])
         THEN AggSync([r EXCEPT !.req = AddItem(@, r.items[r.i], Null), !.i = @ + 1])
         ELSE [r EXCEPT !.pc = "lookup"]

Fresh(op, items) ==
    AggSync([IdleCall EXCEPT !.op = op, !.items = items, !.i = 1, !.stock0 = stock])

-----------------------------------------------------------------------------
(* The steps of a call: each is the completion of one awaited store call,      *)
(* followed by the synchronous code up to the next await                        *)

Set(c, r) == call' = [call EXCEPT ![c] = r]

\* a write of val to product id by someone else, as an in-flight call meets it
Seen(r, id, val) ==
    IF r.pc \in Resting THEN r
    ELSE [r EXCEPT !.log = Append(@, [kind |-> "foreign", id |-> id, val |-> val])]

\* call c goes on as r, having written val to product id
SetWriting(c, r, id, val) ==
    call' = [d \in Calls |-> IF d = c THEN r ELSE Seen(call[d], id, val)]

MayFail(r) == r.faults < MaxFaults

Faulted(r) == [r EXCEPT !.faults = @ + 1]

\* what a batch requires of product p, and whether restoring it keeps every
\* stock within MaxStock
Need(items, p) ==
    LET req == calculateStockRequirements(items)
        k == ReqIndex(req, p)
    IN IF k > 0 THEN req[k].required ELSE 0

Fits(items) == \A p \in ProductIds : stock[p] + Need(items, p) <= MaxStock

\* a caller invokes calculateStockRequirements, validateStockForPackaging,
\* deductStockForPackaging or restoreStockForPackaging on a batch of items
Start(c, op, items) ==
    /\ call[c].pc = "idle"
    /\ op = "restore" => Fits(items)
    /\ Set(c, Fresh(op, items))
    /\ UNCHANGED <<products, stock, other>>

\* the caller of a deduction that succeeded deletes the packaging record:
\* restoreStockForPackaging on the same items
StartRestoreAfterDeduct(c) ==
    /\ call[c].pc = "done"
    /\ call[c].op = "deduct"
    /\ call[c].result.success
    /\ Set(c, [Fresh("restore", call[c].items) EXCEPT
                  !.chained = TRUE, !.base = call[c].stock0])
    /\ UNCHANGED <<products, stock, other>>

\* the caller of a restoration that succeeded asks for it once more (a retried
\* or repeated delete of the packaging record): the same items again
StartRestoreAgain(c) ==
    /\ call[c].pc = "done"
    /\ call[c].op = "restore"
    /\ call[c].result.success
    /\ ~call[c].again
    /\ Fits(call[c].items)
    /\ Set(c, [Fresh("restore", call[c].items) EXCEPT !.again = TRUE, !.base = stock])
    /\ UNCHANGED <<products, stock, other>>

\* the caller of a validation that returned goes on to create the packaging
\* record and deduct: deductStockForPackaging on the same items
StartDeductAfterValidate(c) ==
    /\ call[c].pc = "done"
    /\ call[c].op = "validate"
    /\ Set(c, [Fresh("deduct", call[c].items) EXCEPT !.prior = call[c].result])
    /\ UNCHANGED <<products, stock, other>>

\* the caller has taken the call's outcome
Finish(c) ==
    /\ call[c].pc \in {"done", "thrown"}
    /\ Set(c, IdleCall)
    /\ UNCHANGED <<products, stock, other>>

\* variant of Lookup: a barcode no product has makes the call throw
LookupStrict(c) ==
    LET r == call[c]
        item == r.items[r.i]
        found == getByBarcode(item.product_barcode)
    IN /\ r.pc = "lookup"
       /\ Set(c, IF found = Null
                 THEN [r EXCEPT !.pc = "thrown"]
                 ELSE AggSync([r EXCEPT !.req = AddItem(@, item, found), !.i = @ + 1]))
       /\ UNCHANGED <<products, stock, other>>

\* await this.getByBarcode(item.product_barcode) returns
Lookup(c) ==
    LET r == call[c]
        item == r.items[r.i]
    IN /\ r.pc = "lookup"
       /\ Set(c, AggSync([r EXCEPT
                   !.req = AddItem(@, item, getByBarcode(item.product_barcode)),
                   !.i = @ + 1]))
       /\ UNCHANGED <<products, stock, other>>

\* variant of LookupFail: the rejection is reported in errors and the call
\* returns
LookupFailCollected(c) ==
    LET r == call[c]
    IN /\ r.pc = "lookup"
       /\ MayFail(r)
       /\ Set(c, Return([Faulted(r) EXCEPT
                   !.errors = Append(@, [kind |-> "failed", id |-> "none",
                                         name |-> r.items[r.i].product_barcode])]))
       /\ UNCHANGED <<products, stock, other>>

\* await this.getByBarcode(...) rejects: nothing catches it
LookupFail(c) ==
    LET r == call[c]
    IN /\ r.pc = "lookup"
       /\ MayFail(r)
       /\ Set(c, [Faulted(r) EXCEPT !.pc = "thrown"])
       /\ UNCHANGED <<products, stock, other>>

\* errors.push(`Insufficient stock for ${product.name}: required ..., available ...`)
InsufficientError(e, latest) ==
    [kind |-> "insufficient", id |-> e.id, name |-> e.product.name,
     required |-> e.required, available |-> latest.stock_quantity]

\* errors.push(`Failed to update stock for ${product.name}: ...`)
FailedError(e) == [kind |-> "failed", id |-> e.id, name |-> e.product.name]

\* variant of DeductNewStock: one unit is taken whatever is required
DeductNewStockByOne(latest, required) == latest.stock_quantity - 1

\* const newStock = latestProduct.stock_quantity - required
DeductNewStock(latest, required) == latest.stock_quantity - required

\* variant of Rejects: the check is missing
RejectsNever(newStock) == FALSE

\* variant of Rejects: a deduction that would leave nothing is rejected too
RejectsAtZero(newStock) == newStock <= 0

\* if (newStock < 0)
Rejects(newStock) == newStock < 0

\* variant of RestoreNewStock: adds one unit whatever was required
RestoreNewStockByOne(latest, required) == latest.stock_quantity + 1

\* const newStock = latestProduct.stock_quantity + required
RestoreNewStock(latest, required) == latest.stock_quantity + required

\* variant of IsShort: compares the snapshot held in the map
IsShortStale(e, latest) == e.product.stock_quantity < e.required

\* if (latestProduct.stock_quantity < required), e the map entry {product, required}
IsShort(e, latest) == latest.stock_quantity < e.required

\* insufficientStock.push({ barcode, name, required, available })
ShortfallEntry(e, latest) ==
    [barcode |-> latest.barcode, name |-> latest.name, required |-> e.required,
     available |-> latest.stock_quantity]

\* the code that follows a successful await this.getById(productId)
AfterGet(r, latest) ==
    LET e == Cur(r)
        g == [r EXCEPT !.log = LogGet(r, latest)]
    IN CASE r.op = "deduct" ->
              IF Rejects(DeductNewStock(latest, e.required))
              THEN LoopSync([g EXCEPT !.errors = Append(@, InsufficientError(e, latest)),
                                      !.idx = @ + 1])
              ELSE [g EXCEPT !.updatedProducts =
                                 Append(@, [productId |-> e.id,
                                            previousStock |-> latest.stock_quantity]),
                             !.pending = DeductNewStock(latest, e.required),
                             !.pc = "put"]
         [] r.op = "restore" ->
              [g EXCEPT !.pending = RestoreNewStock(latest, e.required), !.pc = "put"]
         [] OTHER ->
              LoopSync([g EXCEPT !.insufficientStock =
                                     IF IsShort(e, latest)
                                     THEN Append(@, ShortfallEntry(e, latest))
                                     ELSE @,
                                 !.idx = @ + 1])

\* variant of Get: a validation that reserves what it found sufficient or not
GetReserving(c) ==
    LET r == call[c]
        id == Cur(r).id
    IN /\ r.pc = "get"
       /\ id \in products
       /\ Set(c, AfterGet(r, Doc(id)))
       /\ stock' = IF r.op = "validate"
                   THEN [stock EXCEPT ![id] = Max0(@ - Cur(r).required)]
                   ELSE stock
       /\ UNCHANGED <<products, other>>

\* await this.getById(productId) returns the stored document
Get(c) ==
    LET r == call[c]
    IN /\ r.pc = "get"
       /\ Cur(r).id \in products
       /\ Set(c, AfterGet(r, Doc(Cur(r).id)))
       /\ UNCHANGED <<products, stock, other>>

\* variant of AfterFailure: no call catches the rejection
AfterFailureThrowing(r) == [r EXCEPT !.pc = "thrown"]

\* what follows a rejected store call inside the per-product loop: deduct and
\* restore catch it, validate lets it propagate
AfterFailure(r) ==
    IF r.op = "validate"
    THEN [r EXCEPT !.pc = "thrown"]
    ELSE LoopSync([r EXCEPT !.errors = Append(@, FailedError(Cur(r))), !.idx = @ + 1])

\* await this.getById(productId) rejects: the document is gone, or the store failed
GetFail(c) ==
    LET r == call[c]
    IN /\ r.pc = "get"
       /\ \/ /\ Cur(r).id \notin products
             /\ Set(c, AfterFailure(r))
          \/ /\ Cur(r).id \in products
             /\ MayFail(r)
             /\ Set(c, AfterFailure(Faulted(r)))
       /\ UNCHANGED <<products, stock, other>>

\* variant of Put: the store applies the difference to what it holds
PutDecrement(c) ==
    LET r == call[c]
        id == Cur(r).id
        v == updateStockValue(IF r.op = "deduct" THEN stock[id] - Cur(r).required
                              ELSE stock[id] + Cur(r).required)
    IN /\ r.pc = "put"
       /\ id \in products
       /\ stock' = [stock EXCEPT ![id] = v]
       /\ SetWriting(c, LoopSync([r EXCEPT
                   !.log = LogUpdate(r, id, v, "loop", TRUE),
                   !.idx = @ + 1]), id, v)
       /\ UNCHANGED <<products, other>>

\* variant of Put: the call goes on without the write having been persisted
PutUnawaited(c) ==
    LET r == call[c]
        id == Cur(r).id
    IN /\ r.pc = "put"
       /\ id \in products
       /\ Set(c, LoopSync([r EXCEPT
                   !.log = LogUpdate(r, id, updateStockValue(r.pending), "loop", TRUE),
                   !.idx = @ + 1]))
       /\ UNCHANGED <<products, stock, other>>

\* await this.updateStock(productId, newStock) returns
Put(c) ==
    LET r == call[c]
        id == Cur(r).id
    IN /\ r.pc = "put"
       /\ id \in products
       /\ stock' = [stock EXCEPT ![id] = updateStockValue(r.pending)]
       /\ SetWriting(c, LoopSync([r EXCEPT
                   !.log = LogUpdate(r, id, updateStockValue(r.pending), "loop", TRUE),
                   !.idx = @ + 1]), id, updateStockValue(r.pending))
       /\ UNCHANGED <<products, other>>

\* variant of PutFail: a restoration whose write is rejected puts every product
\* back to what the call found
PutFailUndoing(c) ==
    LET r == call[c]
        id == Cur(r).id
        f == [r EXCEPT !.log = LogUpdate(r, id, updateStockValue(r.pending), "loop", FALSE)]
    IN /\ r.pc = "put"
       /\ \/ /\ id \notin products
             /\ Set(c, AfterFailure(f))
          \/ /\ id \in products
             /\ MayFail(r)
             /\ Set(c, AfterFailure(Faulted(f)))
       /\ stock' = IF r.op = "restore" THEN r.stock0 ELSE stock
       /\ UNCHANGED <<products, other>>

\* await this.updateStock(productId, newStock) rejects: nothing is persisted
PutFail(c) ==
    LET r == call[c]
        id == Cur(r).id
        f == [r EXCEPT !.log = LogUpdate(r, id, updateStockValue(r.pending), "loop", FALSE)]
    IN /\ r.pc = "put"
       /\ \/ /\ id \notin products
             /\ Set(c, AfterFailure(f))
          \/ /\ id \in products
             /\ MayFail(r)
             /\ Set(c, AfterFailure(Faulted(f)))
       /\ UNCHANGED <<products, stock, other>>

\* the value the rollback hands to updateStock for an undo entry
RollbackValue(u) == u.previousStock

\* variant of Rollback: adds the required quantity back to what is stored
RollbackAdding(c) ==
    LET r == call[c]
        u == r.updatedProducts[r.ridx]
        e == r.req[ReqIndex(r.req, u.productId)]
        v == updateStockValue(stock[u.productId] + e.required)
    IN /\ r.pc = "rollback"
       /\ u.productId \in products
       /\ stock' = [stock EXCEPT ![u.productId] = v]
       /\ SetWriting(c, RollbackSync([r EXCEPT
                   !.log = LogUpdate(r, u.productId, v, "rollback", TRUE),
                   !.ridx = @ + 1]), u.productId, v)
       /\ UNCHANGED <<products, other>>

\* await this.updateStock(productId, previousStock) returns, in the rollback loop
Rollback(c) ==
    LET r == call[c]
        u == r.updatedProducts[r.ridx]
        v == updateStockValue(RollbackValue(u))
    IN /\ r.pc = "rollback"
       /\ u.productId \in products
       /\ stock' = [stock EXCEPT ![u.productId] = v]
       /\ SetWriting(c, RollbackSync([r EXCEPT
                   !.log = LogUpdate(r, u.productId, v, "rollback", TRUE),
                   !.ridx = @ + 1]), u.productId, v)
       /\ UNCHANGED <<products, other>>

\* variant of RollbackFail: the rejection leaves the rollback loop and the call
RollbackFailThrowing(c) ==
    LET r == call[c]
        u == r.updatedProducts[r.ridx]
        v == updateStockValue(RollbackValue(u))
        f == [r EXCEPT !.log = LogUpdate(r, u.productId, v, "rollback", FALSE),
                       !.rbFailed = TRUE, !.pc = "thrown"]
    IN /\ r.pc = "rollback"
       /\ \/ /\ u.productId \notin products
             /\ Set(c, f)
          \/ /\ u.productId \in products
             /\ MayFail(r)
             /\ Set(c, Faulted(f))
       /\ UNCHANGED <<products, stock, other>>

\* the rollback's updateStock rejects: caught, logged to the console, swallowed
RollbackFail(c) ==
    LET r == call[c]
        u == r.updatedProducts[r.ridx]
        v == updateStockValue(RollbackValue(u))
        f == [r EXCEPT !.log = LogUpdate(r, u.productId, v, "rollback", FALSE),
                       !.rbFailed = TRUE, !.ridx = @ + 1]
    IN /\ r.pc = "rollback"
       /\ \/ /\ u.productId \notin products
             /\ Set(c, RollbackSync(f))
          \/ /\ u.productId \in products
             /\ MayFail(r)
             /\ Set(c, RollbackSync(Faulted(f)))
       /\ UNCHANGED <<products, stock, other>>

Step(c) ==
    \/ Lookup(c)
    \/ LookupFail(c)
    \/ Get(c)
    \/ GetFail(c)
    \/ Put(c)
    \/ PutFail(c)
    \/ Rollback(c)
    \/ RollbackFail(c)

-----------------------------------------------------------------------------
(* Spec: one caller at a time, on any stored stock *)

\* the items of the batches handed to validate, deduct and restore
CallPool ==
    { SingleItem("a1"),
      BundleItem("k1", <<Comp("A", 2)>>),
      BundleItem("k2", <<Comp("B", 1), Comp("C", 2)>>) }

Batches == SeqsUpTo(CallPool, MaxBatch)

StoreInit ==
    /\ products \in {ProductIds, ProductIds \ {"C"}}
    /\ stock \in [ProductIds -> StockValues]
    /\ \A p \in ProductIds \ products : stock[p] = 0
    /\ components = BundleEdges

Init ==
    /\ StoreInit
    /\ call = [c \in Calls |-> IdleCall]
    /\ del = IdleDel
    /\ gwc = IdleGwc
    /\ BackgroundIdle

Next ==
    \/ \E op \in Ops \ {"aggregate"}, items \in Batches : Start(1, op, items)
    \/ StartRestoreAfterDeduct(1)
    \/ StartRestoreAgain(1)
    \/ StartDeductAfterValidate(1)
    \/ Step(1)
    \/ Finish(1)

Spec == Init /\ [][Next]_vars

-----------------------------------------------------------------------------
(* SpecAgg: calculateStockRequirements called on its own, on every batch *)

AggBatches == SeqsUpTo(ItemPool, MaxItems)

\* batches whose bundle components carry any quantity a caller or a component
\* edge may hold: nothing in create, updateQuantity or the aggregation checks it
QuantityPool ==
    { SingleItem("a1"), SingleItem("zz"),
      BundleItem("k1", <<Comp("A", 2)>>),
      BundleItem("k5", <<Comp("B", 0), Comp("A", 0 - 1)>>) }

QuantityBatches == SeqsUpTo(QuantityPool, MaxItems)

InitAgg ==
    /\ products \in {ProductIds, ProductIds \ {"C"}}
    /\ stock = [p \in ProductIds |-> IF p \in products THEN 1 ELSE 0]
    /\ components = BundleEdges
    /\ call = [c \in Calls |-> IdleCall]
    /\ del = IdleDel
    /\ gwc = IdleGwc
    /\ BackgroundIdle

\* a caller that has no call under way invokes calculateStockRequirements
StartAggregate ==
    /\ call[1].pc = "idle"
    /\ \E items \in AggBatches : Start(1, "aggregate", items)

NextAgg ==
    \/ StartAggregate
    \/ Lookup(1)
    \/ LookupFail(1)
    \/ Finish(1)

SpecAgg == InitAgg /\ [][NextAgg]_vars

NextQuantity ==
    \/ \E items \in QuantityBatches : Start(1, "aggregate", items)
    \/ Lookup(1)
    \/ LookupFail(1)
    \/ Finish(1)

SpecQuantity == InitAgg /\ [][NextQuantity]_vars

-----------------------------------------------------------------------------
(* SpecSigned: one deduction, on a store and a batch as create, update and the *)
(* component edges let them be: stock_quantity and quantity of either sign     *)

SignedPool ==
    { SingleItem("b1"),
      BundleItem("k1", <<Comp("A", 2)>>),
      BundleItem("k6", <<Comp("A", 0 - 1)>>) }

SignedBatches == SeqsUpTo(SignedPool, MaxBatch)

NextSigned ==
    \/ \E items \in SignedBatches : Start(1, "deduct", items)
    \/ Step(1)

SpecSigned == Init /\ [][NextSigned]_vars

-----------------------------------------------------------------------------
(* SpecConc: two callers each make one deduction, at the same time or one     *)
(* after the other                                                             *)

ConcBatches == {<<x>> : x \in CallPool}

InitConc ==
    /\ products = ProductIds
    /\ stock \in [ProductIds -> 0..MaxStock]
    /\ components = BundleEdges
    /\ call = [c \in Calls |-> IdleCall]
    /\ del = IdleDel
    /\ gwc = IdleGwc
    /\ BackgroundIdle

NextConc ==
    \/ \E c \in Calls, items \in ConcBatches : Start(c, "deduct", items)
    \/ \E c \in Calls : Lookup(c)
    \/ \E c \in Calls : Get(c)
    \/ \E c \in Calls : Put(c)
    \/ \E c \in Calls : Rollback(c)

SpecConc == InitConc /\ [][NextConc]_vars

-----------------------------------------------------------------------------
(* SpecStock: two callers each make one deduction or restoration while a third *)
(* party sets stock with updateStock, all at the same time                      *)

\* productService.updateStock called by a third party, whatever the two callers
\* are in the middle of
updateStockMeanwhile(p, n) ==
    /\ p \in products
    /\ \E c \in Calls : call[c].pc \notin Resting
    /\ stock' = [stock EXCEPT ![p] = updateStockValue(n)]
    /\ UNCHANGED <<products, call, other>>

\* one batch of a single product and one of two, whose second read can fall
\* short after the first write
StockBatches ==
    { <<SingleItem("a1")>>, <<BundleItem("k2", <<Comp("B", 1), Comp("C", 2)>>)>> }

\* what the third party writes: the last product of the two-product batch,
\* set to a negative quantity or to the largest one
MeanwhileIds == {"C"}
MeanwhileValues == {0 - 1, MaxStock}

NextStock ==
    \/ \E c \in Calls, op \in {"deduct", "restore"}, items \in StockBatches :
          Start(c, op, items)
    \/ \E p \in MeanwhileIds, n \in MeanwhileValues : updateStockMeanwhile(p, n)
    \/ \E c \in Calls : Lookup(c)
    \/ \E c \in Calls : Get(c)
    \/ \E c \in Calls : Put(c)
    \/ \E c \in Calls : Rollback(c)

SpecStock == InitConc /\ [][NextStock]_vars

-----------------------------------------------------------------------------
(* SpecCrud: any sequence of create, update, updateStock, deduct and restore,  *)
(* starting from an empty Products collection                                  *)

\* the stock_quantity field of a CreateProductInput or UpdateProductInput:
\* left out, or a number
Absent == [present |-> FALSE, value |-> 0]

StockInputs == {Absent} \cup {[present |-> TRUE, value |-> v] : v \in StockValues}

\* stock_quantity: data.stock_quantity ?? 0
createStockValue(given) == IF given.present THEN given.value ELSE 0

\* productService.create: the store assigns an unused id and persists the fields
create(p, given) ==
    /\ AllIdle
    /\ p \notin products
    /\ products' = products \cup {p}
    /\ stock' = [stock EXCEPT ![p] = createStockValue(given)]
    /\ UNCHANGED <<call, other>>

\* productService.update: updateDocument overwrites the fields data carries
update(p, given) ==
    /\ AllIdle
    /\ p \in products
    /\ stock' = [stock EXCEPT ![p] = IF given.present THEN given.value ELSE @]
    /\ UNCHANGED <<products, call, other>>

\* productService.updateStock
updateStock(p, n) ==
    /\ AllIdle
    /\ p \in products
    /\ stock' = [stock EXCEPT ![p] = updateStockValue(n)]
    /\ UNCHANGED <<products, call, other>>

InitCrud ==
    /\ products = {}
    /\ stock = ZeroStock
    /\ components = {}
    /\ call = [c \in Calls |-> IdleCall]
    /\ del = IdleDel
    /\ gwc = IdleGwc
    /\ BackgroundIdle

NextCrud ==
    \/ \E p \in ProductIds, given \in StockInputs : create(p, given)
    \/ \E p \in ProductIds, given \in StockInputs : update(p, given)
    \/ \E p \in ProductIds, n \in StockValues : updateStock(p, n)
    \/ \E op \in {"deduct", "restore"}, items \in ConcBatches : Start(1, op, items)
    \/ Step(1)
    \/ Finish(1)

SpecCrud == InitCrud /\ [][NextCrud]_vars

-----------------------------------------------------------------------------
(* productService.delete: the component edges of the product, then the product *)

\* the component edges a store may hold between the products, in the order the
\* store lists them
EdgeSeq ==
    << Edge("c1", "A", "B", 2), Edge("c2", "B", "A", 1), Edge("c3", "A", "A", 1),
       Edge("c4", "B", "C", 1), Edge("c5", "C", "B", 3) >>

EdgePool == {EdgeSeq[n] : n \in 1..Len(EdgeSeq)}

\* listDocuments(PRODUCT_COMPONENTS, [equal('parent_product_id', p)]).documents
listByParent(p) ==
    SelectSeq(EdgeSeq, LAMBDA e : e \in components /\ e.parent_product_id = p)

\* listDocuments(PRODUCT_COMPONENTS, [equal('child_product_id', p)]).documents
listByChild(p) ==
    SelectSeq(EdgeSeq, LAMBDA e : e \in components /\ e.child_product_id = p)

DelMayFail == del.faults < MaxFaults

\* the for loop over [...parentComponents.documents, ...childComponents.documents],
\* up to its next await
DeleteLoopSync(d) ==
    IF d.k <= Len(d.list) THEN [d EXCEPT !.pc = "deleteComponent"]
    ELSE [d EXCEPT !.pc = "deleteProduct"]

\* a caller invokes productService.delete(p)
StartDelete(p) ==
    /\ del.pc = "idle"
    /\ AllIdle
    /\ p \in products
    /\ del' = [IdleDel EXCEPT !.pc = "listParents", !.productId = p,
                              !.components0 = components]
    /\ UNCHANGED <<products, stock, components, call, gwc, background>>

\* the listing by parent_product_id returns
ListParents ==
    /\ del.pc = "listParents"
    /\ del' = [del EXCEPT !.parentComponents = listByParent(del.productId),
                          !.pc = "listChildren"]
    /\ UNCHANGED <<products, stock, components, call, gwc, background>>

\* variant of ListChildren: the listing by child_product_id finds nothing
ListChildrenNone ==
    /\ del.pc = "listChildren"
    /\ del' = DeleteLoopSync([del EXCEPT !.childComponents = <<>>,
                                         !.list = del.parentComponents,
                                         !.k = 1])
    /\ UNCHANGED <<products, stock, components, call, gwc, background>>

\* the listing by child_product_id returns
ListChildren ==
    /\ del.pc = "listChildren"
    /\ del' = DeleteLoopSync([del EXCEPT
                  !.childComponents = listByChild(del.productId),
                  !.list = del.parentComponents \o listByChild(del.productId),
                  !.k = 1])
    /\ UNCHANGED <<products, stock, components, call, gwc, background>>

\* deleteDocument(PRODUCT_COMPONENTS, component.$id) returns
DeleteComponent ==
    LET e == del.list[del.k]
    IN /\ del.pc = "deleteComponent"
       /\ e \in components
       /\ components' = components \ {e}
       /\ del' = DeleteLoopSync([del EXCEPT !.asked = Append(@, e.id), !.k = @ + 1])
       /\ UNCHANGED <<products, stock, call, gwc, background>>

\* deleteDocument(PRODUCTS, productId) returns
DeleteProduct ==
    /\ del.pc = "deleteProduct"
    /\ del.productId \in products
    /\ products' = products \ {del.productId}
    /\ del' = [del EXCEPT !.pc = "done"]
    /\ UNCHANGED <<stock, components, call, gwc, background>>

\* a store call of delete rejects (the store failed, or the document to delete
\* is not there): nothing in delete catches it
DeleteFail ==
    /\ del.pc \in {"listParents", "listChildren", "deleteComponent", "deleteProduct"}
    /\ \/ /\ DelMayFail
          /\ del' = [del EXCEPT !.pc = "thrown", !.faults = @ + 1,
                        !.asked = IF del.pc = "deleteComponent"
                                  THEN Append(@, del.list[del.k].id) ELSE @]
       \/ /\ del.pc = "deleteComponent"
          /\ del.list[del.k] \notin components
          /\ del' = [del EXCEPT !.pc = "thrown",
                                !.asked = Append(@, del.list[del.k].id)]
    /\ UNCHANGED <<products, stock, components, call, gwc, background>>

\* the caller has taken the outcome of delete
FinishDelete ==
    /\ del.pc \in {"done", "thrown"}
    /\ del' = IdleDel
    /\ UNCHANGED <<products, stock, components, call, gwc, background>>

InitDelete ==
    /\ products = ProductIds
    /\ stock = ZeroStock
    /\ components \in SUBSET EdgePool
    /\ call = [c \in Calls |-> IdleCall]
    /\ del = IdleDel
    /\ gwc = IdleGwc
    /\ BackgroundIdle

NextDelete ==
    \/ \E p \in ProductIds : StartDelete(p)
    \/ ListParents
    \/ ListChildren
    \/ DeleteComponent
    \/ DeleteProduct
    \/ DeleteFail
    \/ FinishDelete

SpecDelete == InitDelete /\ [][NextDelete]_vars

-----------------------------------------------------------------------------
(* productComponentService.deleteAllForParent: the edges of one bundle, one    *)
(* at a time                                                                    *)

\* the delayMs a caller passes: none (the default), or some milliseconds
DelayValues == {0, 200}

\* the for loop over components, up to its next await
DeleteAllSync(d) ==
    IF d.k > Len(d.list) THEN [d EXCEPT !.pc = "done"]
    ELSE IF d.delayMs > 0 THEN [d EXCEPT !.pc = "delay"]
         ELSE [d EXCEPT !.pc = "deleteEdge"]

\* a caller invokes productComponentService.deleteAllForParent(p, delayMs)
StartDeleteAllForParent(p, delayMs) ==
    /\ del.pc = "idle"
    /\ AllIdle
    /\ del' = [IdleDel EXCEPT !.pc = "getByParentId", !.productId = p,
                              !.delayMs = delayMs, !.components0 = components]
    /\ UNCHANGED <<products, stock, components, call, gwc, background>>

\* await this.getByParentId(parentProductId) returns
GetByParentId ==
    /\ del.pc = "getByParentId"
    /\ del' = DeleteAllSync([del EXCEPT !.list = listByParent(del.productId), !.k = 1])
    /\ UNCHANGED <<products, stock, components, call, gwc, background>>

\* the setTimeout of the pause between deletes fires
Delay ==
    /\ del.pc = "delay"
    /\ del' = [del EXCEPT !.pc = "deleteEdge"]
    /\ UNCHANGED <<products, stock, components, call, gwc, background>>

\* deleteDocument(PRODUCT_COMPONENTS, component.$id) returns
DeleteEdge ==
    LET e == del.list[del.k]
    IN /\ del.pc = "deleteEdge"
       /\ e \in components
       /\ components' = components \ {e}
       /\ del' = DeleteAllSync([del EXCEPT !.asked = Append(@, e.id), !.k = @ + 1])
       /\ UNCHANGED <<products, stock, call, gwc, background>>

\* variant of DeleteAllFail: the rejected delete is passed over
DeleteAllFailSkipping ==
    /\ del.pc = "deleteEdge"
    /\ DelMayFail
    /\ del' = DeleteAllSync([del EXCEPT !.faults = @ + 1,
                                        !.asked = Append(@, del.list[del.k].id),
                                        !.k = @ + 1])
    /\ UNCHANGED <<products, stock, components, call, gwc, background>>

\* the listing or a delete rejects: nothing in deleteAllForParent catches it
DeleteAllFail ==
    /\ del.pc \in {"getByParentId", "deleteEdge"}
    /\ DelMayFail
    /\ del' = [del EXCEPT !.pc = "thrown", !.faults = @ + 1,
                          !.asked = IF del.pc = "deleteEdge"
                                    THEN Append(@, del.list[del.k].id) ELSE @]
    /\ UNCHANGED <<products, stock, components, call, gwc, background>>

NextDeleteAll ==
    \/ \E p \in ProductIds, delayMs \in DelayValues : StartDeleteAllForParent(p, delayMs)
    \/ GetByParentId
    \/ Delay
    \/ DeleteEdge
    \/ DeleteAllFail
    \/ FinishDelete

SpecDeleteAll == InitDelete /\ [][NextDeleteAll]_vars

-----------------------------------------------------------------------------
(* productService.getWithComponents: a product and, for a bundle, its direct   *)
(* components                                                                   *)

\* the type field of the stored products: two bundles and a single product
TypeOf(p) == IF p = "C" THEN "single" ELSE "bundle"

GwcMayFail == gwc.faults < MaxFaults

\* a caller invokes productService.getWithComponents(p)
StartGetWithComponents(p) ==
    /\ gwc.pc = "idle"
    /\ gwc' = [IdleGwc EXCEPT !.pc = "getById", !.productId = p]
    /\ UNCHANGED <<products, stock, components, call, del, background>>

\* variant of GetProduct: the edges are listed whatever the type
GetProductAnyType ==
    /\ gwc.pc = "getById"
    /\ gwc.productId \in products
    /\ gwc' = [gwc EXCEPT !.product = Doc(gwc.productId),
                          !.gets = Append(@, gwc.productId),
                          !.pc = "list"]
    /\ UNCHANGED <<products, stock, components, call, del, background>>

\* await this.getById(productId) returns; a product that is no bundle is
\* returned as it is
GetProduct ==
    /\ gwc.pc = "getById"
    /\ gwc.productId \in products
    /\ gwc' = IF TypeOf(gwc.productId) # "bundle"
              THEN [gwc EXCEPT !.product = Doc(gwc.productId),
                               !.gets = Append(@, gwc.productId),
                               !.result = [product |-> Doc(gwc.productId)],
                               !.pc = "done"]
              ELSE [gwc EXCEPT !.product = Doc(gwc.productId),
                               !.gets = Append(@, gwc.productId),
                               !.pc = "list"]
    /\ UNCHANGED <<products, stock, components, call, del, background>>

\* return { ...product, components }
GwcReturn(g) ==
    [g EXCEPT !.pc = "done",
              !.result = [product |-> g.product, components |-> g.fetched]]

\* the listing by parent_product_id returns; Promise.all issues one getById
\* per listed edge, all at once
ListComponents ==
    LET edges == listByParent(gwc.productId)
        g == [gwc EXCEPT !.edges = edges,
                         !.lists = Append(@, gwc.productId),
                         !.pending = 1..Len(edges),
                         !.fetched = [j \in 1..Len(edges) |->
                                         [product |-> Null, quantity |-> edges[j].quantity]]]
    IN /\ gwc.pc = "list"
       /\ gwc' = IF Len(edges) = 0 THEN GwcReturn(g) ELSE [g EXCEPT !.pc = "children"]
       /\ UNCHANGED <<products, stock, components, call, del, background>>

\* the getById of the j-th child returns, in whatever order the store answers
ChildGet(j) ==
    LET child == gwc.edges[j].child_product_id
        g == [gwc EXCEPT !.fetched[j].product = Doc(child),
                         !.gets = Append(@, child),
                         !.pending = @ \ {j}]
    IN /\ gwc.pc = "children"
       /\ j \in gwc.pending
       /\ child \in products
       /\ gwc' = IF g.pending = {} THEN GwcReturn(g) ELSE g
       /\ UNCHANGED <<products, stock, components, call, del, background>>

\* a store call of getWithComponents rejects (the store failed, or the product
\* or a child is gone): nothing catches it, Promise.all rejects with it
GwcFail ==
    /\ \/ /\ gwc.pc \in {"getById", "list", "children"}
          /\ GwcMayFail
          /\ gwc' = [gwc EXCEPT !.pc = "thrown", !.faults = @ + 1]
       \/ /\ gwc.pc = "getById"
          /\ gwc.productId \notin products
          /\ gwc' = [gwc EXCEPT !.pc = "thrown"]
       \/ /\ gwc.pc = "children"
          /\ \E j \in gwc.pending : gwc.edges[j].child_product_id \notin products
          /\ gwc' = [gwc EXCEPT !.pc = "thrown"]
    /\ UNCHANGED <<products, stock, components, call, del, background>>

\* the caller has taken the outcome of getWithComponents
FinishGwc ==
    /\ gwc.pc \in {"done", "thrown"}
    /\ gwc' = IdleGwc
    /\ UNCHANGED <<products, stock, components, call, del, background>>

InitResolve ==
    /\ products \in {ProductIds, ProductIds \ {"C"}}
    /\ stock \in [ProductIds -> {0, MaxStock}]
    /\ \A p \in ProductIds \ products : stock[p] = 0
    /\ components \in SUBSET EdgePool
    /\ call = [c \in Calls |-> IdleCall]
    /\ del = IdleDel
    /\ gwc = IdleGwc
    /\ BackgroundIdle

NextResolve ==
    \/ \E p \in ProductIds : StartGetWithComponents(p)
    \/ GetProduct
    \/ ListComponents
    \/ \E j \in 1..Len(EdgeSeq) : ChildGet(j)
    \/ GwcFail
    \/ FinishGwc

SpecResolve == InitResolve /\ [][NextResolve]_vars

-----------------------------------------------------------------------------
(* The job dispatcher function: one HTTP request is validated, recorded as a   *)
(* job and handed to a background task                                         *)

MaxJobs == 2

VALID_ACTIONS == {"import", "export", "report-export"}

\* a field the body does not have (or has with a falsy value)
Missing == ""

\* what JSON.parse(req.body || "{}") gives: it throws, it returns null, or it
\* returns a value whose fields are read by the destructuring
Bodies ==
    [kind : {"object"},
     action : VALID_ACTIONS \cup {Missing, "purge"},
     userId : {Missing, "u1"},
     fileId : {Missing, "f1"},
     filters : {Missing, "bundles"},
     startDate : {Missing, "2024-01-01"},
     endDate : {Missing, "2024-01-31"},
     format : {Missing, "pdf"}]
    \cup {[kind |-> "invalid"], [kind |-> "null"]}

\* res.json({ error }, 400)
BadRequest(message) == [code |-> 400, error |-> message]

\* the outer catch: res.json({ success: false, error: err.message }, 500)
Unhandled(message) == [code |-> 500, success |-> FALSE, error |-> message]

\* the response the parsing and the validation end with, or NoResult when the
\* request passes them
Rejection(b) ==
    IF b.kind = "invalid" THEN BadRequest("Invalid JSON body")
    ELSE IF b.kind = "null" THEN Unhandled("Cannot destructure property of null")
    ELSE IF b.action = Missing \/ b.userId = Missing
    THEN BadRequest("Missing required fields: action, userId")
    ELSE IF b.action = "import" /\ b.fileId = Missing
    THEN BadRequest("Missing fileId for import action")
    ELSE IF b.action = "report-export" /\ (b.startDate = Missing \/ b.endDate = Missing)
    THEN BadRequest("Missing startDate or endDate for report-export action")
    ELSE IF b.action \notin VALID_ACTIONS
    THEN BadRequest("Invalid action")
    ELSE NoResult

\* format || "excel"
FormatOf(b) == IF b.format = Missing THEN "excel" ELSE b.format

\* JSON.stringify(v)
Stringify(v) == [json |-> v]

\* the job metadata, as stored by createDocument under a new id
jobData(b, id) ==
    [id |-> id,
     user_id |-> b.userId,
     action |-> b.action,
     status |-> "pending",
     file_id |-> IF b.fileId = Missing THEN "null" ELSE b.fileId,
     filters |-> IF b.action = "report-export"
                 THEN Stringify([startDate |-> b.startDate, endDate |-> b.endDate,
                                 format |-> FormatOf(b)])
                 ELSE IF b.filters = Missing THEN Stringify("null")
                 ELSE Stringify(b.filters),
     created_at |-> "now",
     error |-> Missing, completed_at |-> Missing,
     result_file_id |-> Missing, stats |-> NoResult]

\* the task and the payload of tasks.trigger for the action
TriggerOf(b, id) ==
    IF b.action = "import"
    THEN [task |-> "product-import", jobId |-> id, userId |-> b.userId,
          fileId |-> b.fileId]
    ELSE IF b.action = "export"
    THEN [task |-> "product-export", jobId |-> id, userId |-> b.userId,
          filters |-> b.filters]
    ELSE [task |-> "report-export", jobId |-> id, userId |-> b.userId,
          startDate |-> b.startDate, endDate |-> b.endDate, format |-> FormatOf(b)]

DispMayFail == disp.faults < MaxFaults

\* the function is executed for a request: parsing and validation, up to the
\* await of createDocument
Dispatch(b) ==
    /\ disp.pc = "idle"
    /\ Len(jobs) < MaxJobs
    /\ disp' = IF Rejection(b) = NoResult
               THEN [IdleDisp EXCEPT !.pc = "createDocument", !.body = b,
                                     !.jobs0 = jobs]
               ELSE [IdleDisp EXCEPT !.pc = "done", !.body = b, !.jobs0 = jobs,
                                     !.response = Rejection(b)]
    /\ UNCHANGED <<products, stock, components, call, del, gwc, jobs, task, font>>

\* await databases.createDocument(...) returns the new job
CreateDocument ==
    /\ disp.pc = "createDocument"
    /\ jobs' = Append(jobs, jobData(disp.body, Len(jobs) + 1))
    /\ disp' = [disp EXCEPT !.pc = "trigger", !.jobId = Len(jobs) + 1]
    /\ UNCHANGED <<products, stock, components, call, del, gwc, task, font>>

\* await databases.createDocument(...) rejects: the outer catch answers
CreateDocumentFail ==
    /\ disp.pc = "createDocument"
    /\ DispMayFail
    /\ disp' = [disp EXCEPT !.pc = "done", !.faults = @ + 1,
                            !.response = Unhandled("store")]
    /\ UNCHANGED <<products, stock, components, call, del, gwc, jobs, task, font>>

\* variant of Trigger: the response after a trigger tells the job failed
TriggerReportingFailure ==
    /\ disp.pc = "trigger"
    /\ disp' = [disp EXCEPT
                  !.pc = "done",
                  !.triggered = Append(@, TriggerOf(disp.body, disp.jobId)),
                  !.response = [code |-> 500, success |-> FALSE,
                                error |-> "Failed to queue task",
                                jobId |-> disp.jobId]]
    /\ UNCHANGED <<products, stock, components, call, del, gwc, jobs, task, font>>

\* await tasks.trigger(...) returns: res.json({ success: true, jobId, action,
\* status: "queued" })
Trigger ==
    /\ disp.pc = "trigger"
    /\ disp' = [disp EXCEPT
                  !.pc = "done",
                  !.triggered = Append(@, TriggerOf(disp.body, disp.jobId)),
                  !.response = [code |-> 200, success |-> TRUE, jobId |-> disp.jobId,
                                action |-> disp.body.action, status |-> "queued"]]
    /\ UNCHANGED <<products, stock, components, call, del, gwc, jobs, task, font>>

\* require("@trigger.dev/sdk/v3") or tasks.trigger(...) throws: the inner catch
\* goes on to the update of the job
TriggerFail ==
    /\ disp.pc = "trigger"
    /\ disp' = [disp EXCEPT !.pc = "updateDocument"]
    /\ UNCHANGED <<products, stock, components, call, del, gwc, jobs, task, font>>

\* await databases.updateDocument(..., { status: "failed", error, completed_at })
\* returns: res.json({ success: false, error, jobId }, 500)
UpdateDocument ==
    /\ disp.pc = "updateDocument"
    /\ jobs' = [jobs EXCEPT ![disp.jobId] =
                  [@ EXCEPT !.status = "failed", !.error = "Failed to queue task",
                            !.completed_at = "now"]]
    /\ disp' = [disp EXCEPT !.pc = "done",
                            !.response = [code |-> 500, success |-> FALSE,
                                          error |-> "Failed to queue task",
                                          jobId |-> disp.jobId]]
    /\ UNCHANGED <<products, stock, components, call, del, gwc, task, font>>

\* await databases.updateDocument(...) rejects inside the inner catch: the
\* outer catch answers
UpdateDocumentFail ==
    /\ disp.pc = "updateDocument"
    /\ DispMayFail
    /\ disp' = [disp EXCEPT !.pc = "done", !.faults = @ + 1,
                            !.response = Unhandled("store")]
    /\ UNCHANGED <<products, stock, components, call, del, gwc, jobs, task, font>>

\* the response has been sent; the function can be executed again
FinishDispatch ==
    /\ disp.pc = "done"
    /\ disp' = IdleDisp
    /\ UNCHANGED <<products, stock, components, call, del, gwc, jobs, task, font>>

InitDispatch ==
    /\ products = ProductIds
    /\ stock = ZeroStock
    /\ components = {}
    /\ call = [c \in Calls |-> IdleCall]
    /\ del = IdleDel
    /\ gwc = IdleGwc
    /\ BackgroundIdle

StartDispatch ==
    /\ disp.pc = "idle"
    /\ \E b \in Bodies : Dispatch(b)

NextDispatch ==
    \/ StartDispatch
    \/ CreateDocument
    \/ CreateDocumentFail
    \/ Trigger
    \/ TriggerFail
    \/ UpdateDocument
    \/ UpdateDocumentFail
    \/ FinishDispatch

SpecDispatch == InitDispatch /\ [][NextDispatch]_vars

-----------------------------------------------------------------------------
(* The report-export task: each attempt reads the packaging data of a date     *)
(* range, uploads a workbook and records the outcome in the job; a failed      *)
(* attempt is retried, and onFailure runs after the last one                   *)

MaxRecords == 2

\* retry: { maxAttempts: 3 }
maxAttempts == 3

\* const limit = 100
limit == 100

\* the packaging records a date range may hold, each given by the barcodes of
\* its items in scanned_at order
RecordPool == {<<>>, <<"a1">>, <<"a1", "zz">>}

Ranges == SeqsUpTo(RecordPool, MaxRecords)

Min(a, b) == IF a < b THEN a ELSE b

\* listDocuments(PACKAGING_RECORDS, [..., limit(limit), offset(offset)]).documents,
\* as the indexes of the records
PageOf(data, offset) ==
    [k \in 1..Min(limit, Max0(Len(data) - offset)) |-> offset + k]

\* [...new Set(barcodes)]: the distinct barcodes in order of first occurrence
RECURSIVE Unique(_)
Unique(seq) ==
    IF seq = <<>> THEN <<>>
    ELSE LET init == Unique(SubSeq(seq, 1, Len(seq) - 1))
             last == seq[Len(seq)]
         IN IF \E k \in 1..Len(init) : init[k] = last THEN init
            ELSE Append(init, last)

\* variant of updateJobStatus: completed_at is set with every status
updateJobStatusStamping(job, status, resultFileId, stats, error) ==
    [job EXCEPT
       !.status = status,
       !.result_file_id = IF resultFileId # Missing THEN resultFileId ELSE @,
       !.stats = IF stats # NoResult THEN Stringify(stats) ELSE @,
       !.error = IF error # Missing THEN error ELSE @,
       !.completed_at = "now"]

\* updateJobStatus builds updateData and the store applies it to the job
updateJobStatus(job, status, resultFileId, stats, error) ==
    [job EXCEPT
       !.status = status,
       !.result_file_id = IF resultFileId # Missing THEN resultFileId ELSE @,
       !.stats = IF stats # NoResult THEN Stringify(stats) ELSE @,
       !.error = IF error # Missing THEN error ELSE @,
       !.completed_at = IF status \in {"completed", "failed"} THEN "now" ELSE @]

\* the attempt asks the store for a status write, which is accepted or not
LogStatus(t, status, ok) ==
    [t EXCEPT !.log = Append(@, [kind |-> "status", status |-> status, ok |-> ok])]

\* the attempt has read packaging records, items or products
LogRead(t, what) == [t EXCEPT !.log = Append(@, [kind |-> "read", what |-> what])]

TaskMayFail == task.faults < MaxFaults

\* the state of a new attempt of the run t
Attempt(t) ==
    [IdleTask EXCEPT !.pc = "processing", !.jobId = t.jobId, !.data = t.data,
                     !.badDate = t.badDate, !.attempt = t.attempt + 1,
                     !.uploads = t.uploads, !.emptyRuns = t.emptyRuns]

\* catch (error): up to the await of updateJobStatus(..., "failed", ..., message)
CatchSync(t, message) == [t EXCEPT !.pc = "failed", !.error = message]

\* from the product map to the await of storage.createFile: the summaries and
\* the workbook are built; formatDate throws a RangeError on a scanned_at that
\* is no date
GenerateSync(t) ==
    IF t.badDate /\ t.allItems # <<>> THEN CatchSync(t, "Invalid time value")
    ELSE [t EXCEPT !.pc = "createFile"]

\* the loop over uniqueBarcodes, up to its next await
ProductLoopSync(t) ==
    IF t.bidx <= Len(t.uniqueBarcodes) THEN [t EXCEPT !.pc = "listProducts"]
    ELSE GenerateSync(t)

\* the loop over allRecords, up to its next await
RecordLoopSync(t) ==
    IF t.rec <= Len(t.allRecords) THEN [t EXCEPT !.pc = "listItems"]
    ELSE ProductLoopSync([t EXCEPT !.uniqueBarcodes = Unique(t.allItems), !.bidx = 1])

\* the platform starts the run of a triggered report-export task on a job
StartRun(data, badDate) ==
    /\ task.pc = "idle"
    /\ Len(jobs) = 1
    /\ task' = Attempt([IdleTask EXCEPT !.jobId = 1, !.data = data,
                                        !.badDate = badDate])
    /\ UNCHANGED <<products, stock, components, call, del, gwc, jobs, disp, font>>

\* await updateJobStatus(databases, jobId, "processing") returns
WriteProcessing ==
    /\ task.pc = "processing"
    /\ jobs' = [jobs EXCEPT ![task.jobId] =
                  updateJobStatus(@, "processing", Missing, NoResult, Missing)]
    /\ task' = [LogStatus(task, "processing", TRUE) EXCEPT !.pc = "listRecords"]
    /\ UNCHANGED <<products, stock, components, call, del, gwc, disp, font>>

\* await databases.listDocuments(PACKAGING_RECORDS, ...) returns one page
ListRecords ==
    LET page == PageOf(task.data, task.offset)
        t == [LogRead(task, "records") EXCEPT !.allRecords = @ \o page]
    IN /\ task.pc = "listRecords"
       /\ task' = IF Len(page) < limit
                  THEN IF Len(t.allRecords) = 0
                       THEN [t EXCEPT !.pc = "completedEmpty"]
                       ELSE RecordLoopSync([t EXCEPT !.rec = 1])
                  ELSE [t EXCEPT !.offset = @ + limit]
       /\ UNCHANGED <<products, stock, components, call, del, gwc, jobs, disp, font>>

\* await updateJobStatus(..., "completed", undefined, { records: 0, items: 0 })
\* returns: return { success: true, records: 0, items: 0 }
WriteCompletedEmpty ==
    /\ task.pc = "completedEmpty"
    /\ jobs' = [jobs EXCEPT ![task.jobId] =
                  updateJobStatus(@, "completed", Missing,
                                  [records |-> 0, items |-> 0], Missing)]
    /\ task' = [LogStatus(task, "completed", TRUE) EXCEPT
                  !.pc = "returned", !.emptyRuns = @ + 1,
                  !.result = [success |-> TRUE, records |-> 0, items |-> 0]]
    /\ UNCHANGED <<products, stock, components, call, del, gwc, disp, font>>

\* await databases.listDocuments(PACKAGING_ITEMS, ...) returns the items of
\* one record
ListItems ==
    LET record == task.allRecords[task.rec]
    IN /\ task.pc = "listItems"
       /\ task' = RecordLoopSync([LogRead(task, "items") EXCEPT
                     !.allItems = @ \o task.data[record], !.rec = @ + 1])
       /\ UNCHANGED <<products, stock, components, call, del, gwc, jobs, disp, font>>

\* await databases.listDocuments(PRODUCTS, [equal("barcode", barcode), limit(1)])
\* returns
ListProducts ==
    LET barcode == task.uniqueBarcodes[task.bidx]
        found == getByBarcode(barcode)
        name == IF found = Null THEN "Unknown Product" ELSE found.name
    IN /\ task.pc = "listProducts"
       /\ task' = ProductLoopSync([LogRead(task, "products") EXCEPT
                     !.productMap = Append(@, [barcode |-> barcode, name |-> name]),
                     !.bidx = @ + 1])
       /\ UNCHANGED <<products, stock, components, call, del, gwc, jobs, disp, font>>

\* await storage.createFile(...) returns the uploaded file
CreateFile ==
    /\ task.pc = "createFile"
    /\ task' = [task EXCEPT !.pc = "completed", !.fileId = "file", !.uploads = @ + 1]
    /\ UNCHANGED <<products, stock, components, call, del, gwc, jobs, disp, font>>

\* what the attempt reports of a finished export
StatsOf(t) ==
    [records |-> Len(t.allRecords), items |-> Len(t.allItems),
     products |-> Len(t.uniqueBarcodes)]

\* await updateJobStatus(..., "completed", file.$id, { records, items, products })
\* returns: return { success: true, fileId, fileName, records, items }
WriteCompleted ==
    /\ task.pc = "completed"
    /\ jobs' = [jobs EXCEPT ![task.jobId] =
                  updateJobStatus(@, "completed", task.fileId, StatsOf(task), Missing)]
    /\ task' = [LogStatus(task, "completed", TRUE) EXCEPT
                  !.pc = "returned",
                  !.result = [success |-> TRUE, fileId |-> task.fileId,
                              records |-> Len(task.allRecords),
                              items |-> Len(task.allItems)]]
    /\ UNCHANGED <<products, stock, components, call, del, gwc, disp, font>>

\* an awaited call inside the try rejects: the catch takes over
AttemptFail ==
    /\ task.pc \in {"processing", "listRecords", "completedEmpty", "listItems",
                    "listProducts", "createFile", "completed"}
    /\ TaskMayFail
    /\ task' = CatchSync(
                  [(IF task.pc \in {"processing", "completedEmpty", "completed"}
                    THEN LogStatus(task,
                                   IF task.pc = "processing" THEN "processing"
                                   ELSE "completed", FALSE)
                    ELSE task) EXCEPT !.faults = @ + 1],
                  "store")
    /\ UNCHANGED <<products, stock, components, call, del, gwc, jobs, disp, font>>

\* await updateJobStatus(..., "failed", undefined, undefined, message) returns:
\* throw error
WriteFailed ==
    /\ task.pc = "failed"
    /\ jobs' = [jobs EXCEPT ![task.jobId] =
                  updateJobStatus(@, "failed", Missing, NoResult, task.error)]
    /\ task' = [LogStatus(task, "failed", TRUE) EXCEPT !.pc = "threw"]
    /\ UNCHANGED <<products, stock, components, call, del, gwc, disp, font>>

\* await updateJobStatus(..., "failed", ...) rejects inside the catch: the
\* attempt ends with that rejection
WriteFailedFail ==
    /\ task.pc = "failed"
    /\ TaskMayFail
    /\ task' = [LogStatus(task, "failed", FALSE) EXCEPT
                  !.pc = "threw", !.faults = @ + 1, !.error = "store"]
    /\ UNCHANGED <<products, stock, components, call, del, gwc, jobs, disp, font>>

\* the platform retries an attempt that threw
Retry ==
    /\ task.pc = "threw"
    /\ task.attempt < maxAttempts
    /\ task' = Attempt(task)
    /\ UNCHANGED <<products, stock, components, call, del, gwc, jobs, disp, font>>

\* the last attempt threw: the platform calls onFailure, which awaits
\* markJobFailed
OnFailure ==
    /\ task.pc = "threw"
    /\ task.attempt = maxAttempts
    /\ task' = [task EXCEPT !.pc = "markJobFailed", !.faults = 0]
    /\ UNCHANGED <<products, stock, components, call, del, gwc, jobs, disp, font>>

\* variant of MarkJobFailedFail: the rejection is not caught
MarkJobFailedFailThrowing ==
    /\ task.pc = "markJobFailed"
    /\ TaskMayFail
    /\ task' = [LogStatus(task, "failed", FALSE) EXCEPT
                  !.pc = "onFailureThrew", !.faults = @ + 1]
    /\ UNCHANGED <<products, stock, components, call, del, gwc, jobs, disp, font>>

\* markJobFailed: await updateJobStatus(..., "failed", ..., errorMessage) returns
MarkJobFailed ==
    /\ task.pc = "markJobFailed"
    /\ jobs' = [jobs EXCEPT ![task.jobId] =
                  updateJobStatus(@, "failed", Missing, NoResult, task.error)]
    /\ task' = [LogStatus(task, "failed", TRUE) EXCEPT !.pc = "givenUp"]
    /\ UNCHANGED <<products, stock, components, call, del, gwc, disp, font>>

\* markJobFailed: the write rejects; the catch logs it and onFailure returns
MarkJobFailedFail ==
    /\ task.pc = "markJobFailed"
    /\ TaskMayFail
    /\ task' = [LogStatus(task, "failed", FALSE) EXCEPT
                  !.pc = "givenUp", !.faults = @ + 1]
    /\ UNCHANGED <<products, stock, components, call, del, gwc, jobs, disp, font>>

\* a pending report-export job, as the dispatcher stores it
PendingJob ==
    jobData([kind |-> "object", action |-> "report-export", userId |-> "u1",
             fileId |-> Missing, filters |-> Missing, startDate |-> "2024-01-01",
             endDate |-> "2024-01-31", format |-> Missing], 1)

InitReport ==
    /\ products \in {ProductIds, {}}
    /\ stock = ZeroStock
    /\ components = {}
    /\ call = [c \in Calls |-> IdleCall]
    /\ del = IdleDel
    /\ gwc = IdleGwc
    /\ jobs = <<PendingJob>>
    /\ disp = IdleDisp
    /\ task = IdleTask
    /\ font = IdleFont

NextReport ==
    \/ \E data \in Ranges, badDate \in BOOLEAN : StartRun(data, badDate)
    \/ WriteProcessing
    \/ ListRecords
    \/ WriteCompletedEmpty
    \/ ListItems
    \/ ListProducts
    \/ CreateFile
    \/ WriteCompleted
    \/ AttemptFail
    \/ WriteFailed
    \/ WriteFailedFail
    \/ Retry
    \/ OnFailure
    \/ MarkJobFailed
    \/ MarkJobFailedFail

SpecReport == InitReport /\ [][NextReport]_vars

-----------------------------------------------------------------------------
(* pdf-fonts.ts: loadChineseFont and getFontBase64, which fetches the font     *)
(* from the first source that serves it whole and keeps it for later calls     *)

\* fontUrls: the local font, then the two CDN copies
fontUrls == <<"/fonts/NotoSansSC-Regular.ttf", "jsdelivr/AuYuHui", "jsdelivr/aspect-fonts">>

\* if (arrayBuffer.byteLength < 1000000) throw
minFontBytes == 1000000

\* the byteLength a source may serve: a subset font and a full one
FontSizes == {minFontBytes - 1, minFontBytes}

\* arrayBufferToBase64(buffer): btoa of the bytes, four characters for every
\* three bytes, of the font served by source i
arrayBufferToBase64(i, byteLength) ==
    [id |-> fontUrls[i], length |-> 4 * ((byteLength + 2) \div 3)]

\* the promise of one fetch sequence: the source it is at, what it awaits,
\* what it resolved with and, for the properties, which sources were skipped
\* and which served the font
NewPromise ==
    [state |-> "pending", value |-> Null, i |-> 1, pc |-> "fetch", answers |-> <<>>]

\* fetch(fontUrl, ...) is called by the sequence of promise n
LogFetch(f, n, i) ==
    [f EXCEPT !.fetches = Append(@, [promise |-> n, url |-> i,
                                     cached |-> f.cachedFontBase64 # Null])]

\* the body of loadChineseFont after await getFontBase64(), for caller c
Registered(f, c, fontBase64) ==
    IF fontBase64 = Null \/ fontBase64.length < 1000
    THEN [f EXCEPT !.callers[c] = [@ EXCEPT !.pc = "done", !.fontBase64 = fontBase64,
                                             !.result = FALSE]]
    ELSE [f EXCEPT !.callers[c] = [@ EXCEPT !.pc = "done", !.fontBase64 = fontBase64,
                                             !.result = TRUE],
                   !.fontLoaded = TRUE]

\* variant of getFontBase64: a fetch sequence is started whenever nothing is
\* cached, also while one is under way
getFontBase64Unshared(f, c) ==
    IF f.cachedFontBase64 # Null
    THEN Registered(f, c, f.cachedFontBase64)
    ELSE LET n == Len(f.promises) + 1
         IN LogFetch([f EXCEPT !.promises = Append(@, NewPromise),
                               !.fontLoadPromise = n,
                               !.callers[c] = [@ EXCEPT !.pc = "awaiting", !.promise = n]],
                     n, 1)

\* getFontBase64 called by caller c, up to its first await: the cached font,
\* the promise under way, or a new sequence whose first fetch is issued
getFontBase64(f, c) ==
    IF f.cachedFontBase64 # Null
    THEN Registered(f, c, f.cachedFontBase64)
    ELSE IF f.fontLoadPromise # 0
    THEN [f EXCEPT !.callers[c] = [@ EXCEPT !.pc = "awaiting",
                                            !.promise = f.fontLoadPromise]]
    ELSE LET n == Len(f.promises) + 1
         IN LogFetch([f EXCEPT !.promises = Append(@, NewPromise),
                               !.fontLoadPromise = n,
                               !.callers[c] = [@ EXCEPT !.pc = "awaiting", !.promise = n]],
                     n, 1)

\* caller c calls loadChineseFont(doc); registered tells whether doc already
\* lists NotoSansSC
loadChineseFont(c, registered) ==
    /\ font.callers[c].pc = "idle"
    /\ font' = IF registered
               THEN [font EXCEPT !.callers[c] = [@ EXCEPT !.pc = "done", !.result = TRUE],
                                 !.fontLoaded = TRUE]
               ELSE getFontBase64(font, c)
    /\ UNCHANGED <<products, stock, components, call, del, gwc, jobs, disp, task>>

\* variant of NextSource: after the last source the promise stays in
\* fontLoadPromise
NextSourceKeepingPromise(f, n) ==
    LET g == [f EXCEPT !.promises[n].answers = Append(@, "skipped")]
    IN IF f.promises[n].i < Len(fontUrls)
       THEN LogFetch([g EXCEPT !.promises[n].i = @ + 1, !.promises[n].pc = "fetch"],
                     n, f.promises[n].i + 1)
       ELSE [g EXCEPT !.promises[n].state = "resolved", !.promises[n].pc = "over"]

\* the catch of the loop over fontUrls in the sequence of promise n: the next
\* source is fetched, or all have failed: fontLoadPromise = null; return null
NextSource(f, n) ==
    LET g == [f EXCEPT !.promises[n].answers = Append(@, "skipped")]
    IN IF f.promises[n].i < Len(fontUrls)
       THEN LogFetch([g EXCEPT !.promises[n].i = @ + 1, !.promises[n].pc = "fetch"],
                     n, f.promises[n].i + 1)
       ELSE [g EXCEPT !.promises[n].state = "resolved", !.promises[n].pc = "over",
                      !.fontLoadPromise = 0]

\* await fetch(fontUrl, ...) returns a response that is ok
FetchOk(n) ==
    /\ n \in 1..Len(font.promises)
    /\ font.promises[n].pc = "fetch"
    /\ font' = [font EXCEPT !.promises[n].pc = "arrayBuffer"]
    /\ UNCHANGED <<products, stock, components, call, del, gwc, jobs, disp, task>>

\* await fetch(fontUrl, ...) rejects (the network failed, or the 10 s timer
\* aborted it), or returns a response that is not ok
FetchFail(n) ==
    /\ n \in 1..Len(font.promises)
    /\ font.promises[n].pc = "fetch"
    /\ font' = NextSource(font, n)
    /\ UNCHANGED <<products, stock, components, call, del, gwc, jobs, disp, task>>

\* await response.arrayBuffer() returns byteLength bytes: too few, or the font,
\* which is cached and returned
ArrayBuffer(n, byteLength) ==
    /\ n \in 1..Len(font.promises)
    /\ font.promises[n].pc = "arrayBuffer"
    /\ font' = IF byteLength < minFontBytes
               THEN NextSource(font, n)
               ELSE LET b == arrayBufferToBase64(font.promises[n].i, byteLength)
                    IN [font EXCEPT !.cachedFontBase64 = b,
                                    !.promises[n].state = "resolved",
                                    !.promises[n].value = b,
                                    !.promises[n].pc = "over",
                                    !.promises[n].answers = Append(@, "font")]
    /\ UNCHANGED <<products, stock, components, call, del, gwc, jobs, disp, task>>

\* await response.arrayBuffer() rejects
ArrayBufferFail(n) ==
    /\ n \in 1..Len(font.promises)
    /\ font.promises[n].pc = "arrayBuffer"
    /\ font' = NextSource(font, n)
    /\ UNCHANGED <<products, stock, components, call, del, gwc, jobs, disp, task>>

\* the await of getFontBase64() in caller c's loadChineseFont is resumed with
\* what the promise resolved with
Resume(c) ==
    LET n == font.callers[c].promise
    IN /\ font.callers[c].pc = "awaiting"
       /\ font.promises[n].state = "resolved"
       /\ font' = Registered(font, c, font.promises[n].value)
       /\ UNCHANGED <<products, stock, components, call, del, gwc, jobs, disp, task>>

InitFont ==
    /\ products = ProductIds
    /\ stock = ZeroStock
    /\ components = {}
    /\ call = [c \in Calls |-> IdleCall]
    /\ del = IdleDel
    /\ gwc = IdleGwc
    /\ BackgroundIdle

NextFont ==
    \/ \E c \in FontCallers, registered \in BOOLEAN : loadChineseFont(c, registered)
    \/ \E n \in 1..MaxCallers : FetchOk(n)
    \/ \E n \in 1..MaxCallers : FetchFail(n)
    \/ \E n \in 1..MaxCallers, byteLength \in FontSizes : ArrayBuffer(n, byteLength)
    \/ \E n \in 1..MaxCallers : ArrayBufferFail(n)
    \/ \E c \in FontCallers : Resume(c)

SpecFont == InitFont /\ [][NextFont]_vars

-----------------------------------------------------------------------------
(* Properties of the calls, one caller at a time (Spec) *)

Updates(r) == {k \in 1..Len(r.log) : r.log[k].kind = "update"}

Gets(r) == {k \in 1..Len(r.log) : r.log[k].kind = "get"}

\* an errors entry names a product by the name held in the requirement map,
\* which is the stored name or the name of the caller's snapshot
Mentions(err, p) == err.name \in {NameOf(p), OldNameOf(p)}

\* C1: a deductStockForPackaging call that returns with errors, none of whose
\* rollback writes failed, and with no other writer, leaves every product's
\* stock_quantity at its pre-call value: the deducted ones are restored and
\* the failing ones were never written.
C1_RollbackRestores ==
    \A c \in Calls :
        LET r == call[c]
        IN (r.op = "deduct" /\ r.pc = "done" /\ ~r.result.success /\ ~r.rbFailed)
              => \A p \in ProductIds : stock[p] = r.stock0[p]

\* three products in order, the first two deducted and written, the third failing
C1_Witness ==
    \E c \in Calls :
        LET r == call[c]
        IN /\ r.op = "deduct" /\ r.pc = "done" /\ ~r.result.success /\ ~r.rbFailed
           /\ Len(r.req) = 3
           /\ Len(r.errors) = 1 /\ r.errors[1].id = r.req[3].id
           /\ \A j \in 1..2 :
                 \E k \in Updates(r) :
                    /\ r.log[k].id = r.req[j].id /\ r.log[k].phase = "loop"
                    /\ r.log[k].ok /\ r.log[k].val < r.stock0[r.req[j].id]
           /\ \A p \in ProductIds : stock[p] = r.stock0[p]

\* C2: once deductStockForPackaging has re-read a product P whose stock is
\* below the total the batch requires of P, the call never writes a reduced
\* stock for P, and its errors list has exactly one entry mentioning P.
C2_NoPartialWrite ==
    \A c \in Calls :
        LET r == call[c]
        IN r.op = "deduct" =>
              \A g \in Gets(r) :
                 LET p == r.log[g].id
                     read == r.log[g].doc.stock_quantity
                     e == r.req[ReqIndex(r.req, p)]
                 IN read < e.required =>
                       /\ \A k \in Updates(r) :
                             r.log[k].id = p => r.log[k].val >= read
                       /\ Cardinality({j \in 1..Len(r.errors) : Mentions(r.errors[j], p)}) = 1
                       /\ (r.pc = "done" => stock[p] = r.stock0[p])

\* a product short of stock in a batch that also deducted another product
C2_Witness ==
    \E c \in Calls :
        LET r == call[c]
        IN /\ r.op = "deduct" /\ r.pc = "done"
           /\ \E g \in Gets(r) :
                 LET p == r.log[g].id
                     e == r.req[ReqIndex(r.req, p)]
                 IN /\ r.log[g].doc.stock_quantity < e.required
                    /\ r.log[g].doc.stock_quantity > 0
           /\ \E k \in Updates(r) : r.log[k].phase = "loop" /\ r.log[k].ok

C7_ValidateFresh ==
    \A c \in Calls :
        LET r == call[c]
            short == {k \in 1..Len(r.req) : stock[r.req[k].id] < r.req[k].required}
            entry(k) == [barcode |-> BarcodeOf(r.req[k].id),
                         name |-> NameOf(r.req[k].id),
                         required |-> r.req[k].required,
                         available |-> stock[r.req[k].id]]
        IN (r.op = "validate" /\ r.pc = "done") =>
              /\ r.result.valid <=> (short = {})
              /\ Len(r.result.insufficientStock) = Cardinality(short)
              /\ \A k \in short :
                    \E j \in 1..Len(r.result.insufficientStock) :
                       r.result.insufficientStock[j] = entry(k)
              /\ \A g \in Gets(r) : r.log[g].doc = Doc(r.log[g].id)

\* one product short whose snapshot in the map is out of date, another not short
C7_Witness ==
    \E c \in Calls :
        LET r == call[c]
        IN /\ r.op = "validate" /\ r.pc = "done" /\ ~r.result.valid
           /\ Len(r.req) >= 2
           /\ Len(r.result.insufficientStock) = 1
           /\ \E k \in 1..Len(r.req) :
                 /\ stock[r.req[k].id] < r.req[k].required
                 /\ r.req[k].product.name # NameOf(r.req[k].id)
                 /\ r.req[k].product.stock_quantity >= r.req[k].required

\* C8: no step of a validateStockForPackaging call changes the store: the
\* products, their stock_quantity and the component edges stay as they are,
\* and the call issues no update.
C8_ValidateReadOnly ==
    [][\A c \in Calls :
          (call[c].op = "validate" \/ call'[c].op = "validate")
             => /\ UNCHANGED <<products, stock, other>>
                /\ Updates(call'[c]) = {}]_vars

\* a validation that has re-fetched two products and returned
C8_Witness ==
    \E c \in Calls :
        LET r == call[c]
        IN /\ r.op = "validate" /\ r.pc = "done"
           /\ Cardinality(Gets(r)) >= 2
           /\ stock = r.stock0

-----------------------------------------------------------------------------
(* Properties of calculateStockRequirements (SpecAgg) *)

Resolves(b, p) == p \in products /\ BarcodeOf(p) = b

\* the number of items of the batch whose product_barcode resolves to p
Count(items, p) ==
    Cardinality({i \in 1..Len(items) : Resolves(items[i].product_barcode, p)})

RECURSIVE SumQuantity(_, _, _)
SumQuantity(comps, p, j) ==
    IF j > Len(comps) THEN 0
    ELSE (IF comps[j].product.id = p THEN comps[j].quantity ELSE 0)
         + SumQuantity(comps, p, j + 1)

\* what one item asks of product p
Contribution(item, p) ==
    IF item.is_bundle /\ item.has_components
    THEN SumQuantity(item.bundle_components, p, 1)
    ELSE IF Resolves(item.product_barcode, p) THEN 1 ELSE 0

RECURSIVE Total(_, _, _)
Total(items, p, i) ==
    IF i > Len(items) THEN 0
    ELSE Contribution(items[i], p) + Total(items, p, i + 1)

Pairs(req) == {<<req[k].id, req[k].required>> : k \in 1..Len(req)}

Perms(n) == {f \in [1..n -> 1..n] : \A a, b \in 1..n : f[a] = f[b] => a = b}

\* C9: on a batch of items none of which is a bundle, the returned map has
\* one entry for each product some item's barcode resolves to, and its
\* required quantity is the number of items whose barcode resolves to it.
C9_SinglesCount ==
    \A c \in Calls :
        LET r == call[c]
        IN (r.op = "aggregate" /\ r.pc = "done"
            /\ \A i \in 1..Len(r.items) : ~r.items[i].is_bundle)
              => /\ \A p \in ProductIds :
                       LET k == ReqIndex(r.result.requirements, p)
                       IN IF Count(r.items, p) = 0 THEN k = 0
                          ELSE k > 0 /\ r.result.requirements[k].required = Count(r.items, p)
                 /\ Len(r.result.requirements)
                       = Cardinality({p \in ProductIds : Count(r.items, p) > 0})

\* one product scanned twice and another once
C9_Witness ==
    \E c \in Calls :
        LET r == call[c]
        IN /\ r.op = "aggregate" /\ r.pc = "done"
           /\ \A i \in 1..Len(r.items) : ~r.items[i].is_bundle
           /\ Len(r.result.requirements) = 2
           /\ \E k \in 1..2 : r.result.requirements[k].required = 2

\* C10: on a batch that holds a bundle item, each product's required total is
\* the sum over the items of what each item asks of it (q_i for each component
\* of a bundle, 1 for a resolved single item), and every permutation of the
\* items yields the same totals.
C10_BundleAdditive ==
    \A c \in Calls :
        LET r == call[c]
            n == Len(r.items)
        IN (r.op = "aggregate" /\ r.pc = "done"
            /\ \E i \in 1..n : TakesBundleBranch(r.items[i]))
              => /\ \A p \in ProductIds :
                       LET k == ReqIndex(r.result.requirements, p)
                       IN IF k > 0
                          THEN r.result.requirements[k].required = Total(r.items, p, 1)
                          ELSE Total(r.items, p, 1) = 0
                 /\ \A f \in Perms(n) :
                       Pairs(calculateStockRequirements([i \in 1..n |-> r.items[f[i]]]))
                          = Pairs(r.result.requirements)

\* a two-component bundle and a single item that share a product
C10_Witness ==
    \E c \in Calls :
        LET r == call[c]
        IN /\ r.op = "aggregate" /\ r.pc = "done"
           /\ \E i, j \in 1..Len(r.items) :
                 /\ TakesBundleBranch(r.items[i])
                 /\ Len(r.items[i].bundle_components) = 2
                 /\ ~r.items[j].is_bundle
                 /\ \E p \in ProductIds :
                       /\ Contribution(r.items[i], p) > 0
                       /\ Contribution(r.items[j], p) > 0
                       /\ <<p, Contribution(r.items[i], p) + Contribution(r.items[j], p)>>
                             \in Pairs(r.result.requirements)

-----------------------------------------------------------------------------
(* Properties of two overlapping deductions (SpecConc) *)

\* the stock call r read for product p (each product is read once per call)
ReadOf(r, p) ==
    LET g == CHOOSE g \in Gets(r) : r.log[g].id = p
    IN r.log[g].doc.stock_quantity

HasRead(r, p) == \E g \in Gets(r) : r.log[g].id = p

\* call r read product p before another writer wrote it
ReadBeforeForeignWrite(r, p) ==
    \E g \in Gets(r), f \in 1..Len(r.log) :
        /\ r.log[g].id = p
        /\ g < f
        /\ r.log[f].kind = "foreign" /\ r.log[f].id = p

\* C5: when one of two deductStockForPackaging calls on the same product has
\* read its stock before the other call wrote it and writes after it (so each
\* call read a stock no write had touched), both return success and the stock
\* that remains is the common read minus the last writer's requirement only,
\* which is more than the read minus both requirements: one deduction is lost.
C5_DoubleSpend ==
    \A c, d \in Calls :
        LET r == call[c]
            q == call[d]
        IN (/\ c # d
            /\ r.op = "deduct" /\ r.pc = "done" /\ Len(r.req) = 1
            /\ q.op = "deduct" /\ q.pc = "done" /\ Len(q.req) = 1
            /\ r.req[1].id = q.req[1].id
            /\ ReadBeforeForeignWrite(q, q.req[1].id))
              => LET p == r.req[1].id
                 IN /\ r.result.success /\ q.result.success
                    /\ ReadOf(r, p) = ReadOf(q, p)
                    /\ ReadOf(r, p) >= r.req[1].required
                    /\ ReadOf(q, p) >= q.req[1].required
                    /\ stock[p] = ReadOf(q, p) - q.req[1].required
                    /\ stock[p] > ReadOf(r, p) - (r.req[1].required + q.req[1].required)

\* stock 2, one unit required by each of two overlapping calls, 1 left over
C5_Witness ==
    \E c, d \in Calls :
        LET r == call[c]
            q == call[d]
        IN /\ c # d
           /\ r.op = "deduct" /\ r.pc = "done" /\ r.result.success
           /\ q.op = "deduct" /\ q.pc = "done" /\ q.result.success
           /\ r.items = <<SingleItem("a1")>> /\ q.items = <<SingleItem("a1")>>
           /\ ReadBeforeForeignWrite(q, "A")
           /\ ReadOf(r, "A") = 2 /\ ReadOf(q, "A") = 2
           /\ stock["A"] = 1

\* C6: a compensating write of deductStockForPackaging persists the
\* previousStock the call recorded when it read the product, whatever was
\* stored at that moment (its own deducted value or a value another actor has
\* written since), and it adds nothing to the errors list.
C6_RollbackOverwrites ==
    [][\A c \in Calls :
          LET r == call[c]
              n == Len(call'[c].log)
          IN (/\ r.pc = "rollback"
              /\ n > Len(r.log)
              /\ call'[c].log[n].kind = "update")
                => LET p == r.updatedProducts[r.ridx].productId
                   IN /\ HasRead(r, p)
                      /\ r.updatedProducts[r.ridx].previousStock = ReadOf(r, p)
                      /\ stock'[p] = ReadOf(r, p)
                      /\ call'[c].errors = r.errors
                      /\ \A j \in 1..Len(r.errors) : ~Mentions(r.errors[j], p)]_vars

\* a call deducted a product, another actor then wrote a different value, and
\* the call's rollback put its recorded previousStock over it
C6_Witness ==
    \E c \in Calls :
        LET r == call[c]
        IN /\ r.op = "deduct" /\ r.pc = "done"
           /\ \E i, j, k \in 1..Len(r.log) :
                 /\ i < j /\ j < k
                 /\ r.log[i].kind = "update" /\ r.log[i].phase = "loop" /\ r.log[i].ok
                 /\ r.log[j].kind = "foreign" /\ r.log[j].id = r.log[i].id
                 /\ r.log[j].val # ReadOf(r, r.log[i].id)
                 /\ r.log[j].val # r.log[i].val
                 /\ r.log[k].kind = "update" /\ r.log[k].phase = "rollback" /\ r.log[k].ok
                 /\ r.log[k].id = r.log[i].id
                 /\ r.log[k].val = ReadOf(r, r.log[i].id)
                 /\ stock[r.log[i].id] = r.log[k].val
                 /\ \A m \in (k + 1)..Len(r.log) : r.log[m].id # r.log[i].id
                 /\ \A m \in 1..Len(r.errors) : ~Mentions(r.errors[m], r.log[i].id)

-----------------------------------------------------------------------------
(* Properties of the Product operations in sequence (SpecCrud) *)

\* C4: after any sequence of create, update, updateStock,
\* deductStockForPackaging and restoreStockForPackaging, the stock_quantity
\* persisted for every product is at least 0.
C4_StockNeverNegative == \A p \in products : stock[p] >= 0

-----------------------------------------------------------------------------
(* Properties of calculateStockRequirements: what it leaves out and what it    *)
(* lets in (SpecAgg)                                                            *)

\* a non-bundle item whose barcode no product has
Unresolved(item) ==
    ~TakesBundleBranch(item) /\ getByBarcode(item.product_barcode) = Null

\* the items of a batch without the unresolved ones, in order
Resolved(items) == SelectSeq(items, LAMBDA item : ~Unresolved(item))

\* item names product p: as a component of the bundle, or by its barcode
Names(item, p) ==
    IF TakesBundleBranch(item)
    THEN \E j \in 1..Len(item.bundle_components) : item.bundle_components[j].product.id = p
    ELSE Resolves(item.product_barcode, p)

\* C11: in calculateStockRequirements a non-bundle item whose barcode resolves
\* to no product is skipped: the call throws only when a store call fails, the
\* map built so far is the map of the items before it without the unresolved
\* ones (so no entry is created for it, every entry being asked for by some
\* item), and the call goes on to the end of the batch.
C11_UnresolvedSkipped ==
    \A c \in Calls :
        LET r == call[c]
        IN r.op = "aggregate" =>
              /\ r.pc = "thrown" => r.faults > 0
              /\ r.pc \in {"lookup", "done"} =>
                    /\ r.req = calculateStockRequirements(
                                   Resolved(SubSeq(r.items, 1, r.i - 1)))
                    /\ \A k \in 1..Len(r.req) :
                          \E i \in 1..(r.i - 1) :
                             Names(r.items[i], r.req[k].id)
              /\ r.pc = "done" =>
                    /\ r.i = Len(r.items) + 1
                    /\ r.result.requirements = r.req

\* an unknown barcode between two known ones: both are in the map, once each
C11_Witness ==
    \E c \in Calls :
        LET r == call[c]
        IN /\ r.op = "aggregate" /\ r.pc = "done" /\ r.faults = 0
           /\ r.items = <<SingleItem("a1"), SingleItem("zz"), SingleItem("b1")>>
           /\ Pairs(r.result.requirements) = {<<"A", 1>>, <<"B", 1>>}

\* C12: every entry of the requirement map calculateStockRequirements builds
\* has required >= 1, whatever the batch (SpecQuantity).
C12_RequiredPositive ==
    \A c \in Calls :
        LET r == call[c]
        IN r.op = "aggregate" =>
              \A k \in 1..Len(r.req) : r.req[k].required >= 1

-----------------------------------------------------------------------------
(* Properties of restoreStockForPackaging and of the error handling of the     *)
(* per-product loops (Spec)                                                     *)

\* C13: a second restoreStockForPackaging with the same batch, after a first
\* one that succeeded and with no other writer, leaves every product's
\* stock_quantity as the first one left it.
C13_RestoreIdempotent ==
    \A c \in Calls :
        LET r == call[c]
        IN (r.op = "restore" /\ r.again /\ r.pc = "done" /\ r.result.success)
              => \A p \in ProductIds : stock[p] = r.base[p]

-----------------------------------------------------------------------------
(* Properties of productService.delete (SpecDelete) *)

References(e, p) == e.parent_product_id = p \/ e.child_product_id = p

\* C14: when productService.delete(p) has returned, with no other writer of
\* products or component edges, p is gone, no stored edge has p as
\* parent_product_id or child_product_id, and the edges that do not reference
\* p are exactly those that were stored before the call, unchanged.
C14_DeleteCascades ==
    del.pc = "done" =>
        /\ del.productId \notin products
        /\ \A e \in components : ~References(e, del.productId)
        /\ components = {e \in del.components0 : ~References(e, del.productId)}

\* a product that was the parent of one edge and the child of another, beside
\* an edge between two other products
C14_Witness ==
    /\ del.pc = "done"
    /\ \E e, f, g \in del.components0 :
          /\ e.parent_product_id = del.productId /\ e.child_product_id # del.productId
          /\ f.child_product_id = del.productId /\ f.parent_product_id # del.productId
          /\ ~References(g, del.productId)
          /\ g \in components
          /\ e \notin components /\ f \notin components


\* the errors entries of call r about product p
ErrorsAbout(r, p) == {j \in 1..Len(r.errors) : r.errors[j].id = p}

\* C15: restoreStockForPackaging undoes nothing: it issues no compensating
\* write, and when it returns, with no other writer, every product of the map
\* whose restoration failed has one errors entry and its pre-call stock, every
\* other product of the map has its pre-call stock plus its required quantity,
\* also when a later product failed, and success is false if any failed.
C15_RestoreNoRollback ==
    \A c \in Calls :
        LET r == call[c]
        IN r.op = "restore" =>
              /\ r.updatedProducts = <<>>
              /\ \A k \in Updates(r) : r.log[k].phase = "loop"
              /\ r.pc = "done" =>
                    /\ r.result.success <=> (r.errors = <<>>)
                    /\ r.result.errors = r.errors
                    /\ \A k \in 1..Len(r.req) :
                          LET p == r.req[k].id
                          IN IF ErrorsAbout(r, p) # {}
                             THEN /\ Cardinality(ErrorsAbout(r, p)) = 1
                                  /\ stock[p] = r.stock0[p]
                             ELSE stock[p] = r.stock0[p] + r.req[k].required

\* three products in order, the first two restored, the third failing
C15_Witness ==
    \E c \in Calls :
        LET r == call[c]
        IN /\ r.op = "restore" /\ r.pc = "done" /\ ~r.result.success
           /\ Len(r.req) = 3
           /\ Len(r.errors) = 1 /\ r.errors[1].id = r.req[3].id
           /\ \A k \in 1..2 :
                 /\ stock[r.req[k].id] = r.stock0[r.req[k].id] + r.req[k].required
                 /\ r.req[k].required > 0
           /\ stock[r.req[3].id] = r.stock0[r.req[3].id]


\* the errors entries of call r that report product p short of stock
ShortErrors(r, p) ==
    {j \in ErrorsAbout(r, p) : r.errors[j].kind = "insufficient"}

\* C16: deductStockForPackaging does not stop at an insufficient product: no
\* exception leaves the per-product loop, and once the loop is over every
\* product of the requirement map has been re-fetched (or its re-fetch was
\* rejected and reported), each product read short of its requirement having
\* its own errors entry with the required and the available quantity.
C16_AllEvaluated ==
    \A c \in Calls :
        LET r == call[c]
        IN r.op = "deduct" =>
              /\ r.pc = "thrown" => (r.idx = 0 /\ Gets(r) = {})
              /\ r.pc \in {"rollback", "done"} =>
                    \A k \in 1..Len(r.req) :
                       LET p == r.req[k].id
                       IN /\ HasRead(r, p) \/ ErrorsAbout(r, p) # {}
                          /\ HasRead(r, p) =>
                                IF ReadOf(r, p) < r.req[k].required
                                THEN \E j \in 1..Len(r.errors) :
                                        /\ ShortErrors(r, p) = {j}
                                        /\ r.errors[j].required = r.req[k].required
                                        /\ r.errors[j].available = ReadOf(r, p)
                                ELSE ShortErrors(r, p) = {}

\* the first product short, and two more products evaluated after it, one of
\* them short as well
C16_Witness ==
    \E c \in Calls :
        LET r == call[c]
        IN /\ r.op = "deduct" /\ r.pc = "done"
           /\ Len(r.req) = 3
           /\ \A k \in 1..3 : HasRead(r, r.req[k].id)
           /\ ShortErrors(r, r.req[1].id) # {}
           /\ ShortErrors(r, r.req[2].id) = {}
           /\ ShortErrors(r, r.req[3].id) # {}
           /\ Len(r.result.errors) = 2


\* the step of call c from r to q is a rejected store write
WriteRejected(r, q) ==
    /\ Len(q.log) = Len(r.log) + 1
    /\ q.log[Len(q.log)].kind = "update"
    /\ ~q.log[Len(q.log)].ok

\* C17: a compensating write of deductStockForPackaging that is rejected is
\* swallowed: the errors list stays as it was, the call does not throw, the
\* write is not issued again (the loop moves to the next undo entry), the
\* remaining undo entries are still written, and after the last one the call
\* returns the errors of the per-product loop with success = false.
C17_RollbackFailureSwallowed ==
    [][\A c \in Calls :
          LET r == call[c]
              q == call'[c]
          IN (r.op = "deduct" /\ r.pc = "rollback" /\ WriteRejected(r, q))
                => /\ q.errors = r.errors
                   /\ q.pc # "thrown"
                   /\ q.ridx = r.ridx + 1
                   /\ q.log[Len(q.log)].id = r.updatedProducts[r.ridx].productId
                   /\ q.log[Len(q.log)].phase = "rollback"
                   /\ stock' = stock
                   /\ IF r.ridx < Len(r.updatedProducts)
                      THEN q.pc = "rollback"
                      ELSE /\ q.pc = "done"
                           /\ q.result = [success |-> FALSE, errors |-> r.errors]]_vars

\* two undo entries: the compensating write of the first is rejected, that of
\* the second goes through, and the call returns its one original error
C17_Witness ==
    \E c \in Calls :
        LET r == call[c]
        IN /\ r.op = "deduct" /\ r.pc = "done" /\ ~r.result.success
           /\ Len(r.updatedProducts) = 2
           /\ Len(r.result.errors) = 1
           /\ \E i, j \in Updates(r) :
                 /\ i < j
                 /\ r.log[i].phase = "rollback" /\ ~r.log[i].ok
                 /\ r.log[i].id = r.updatedProducts[1].productId
                 /\ r.log[j].phase = "rollback" /\ r.log[j].ok
                 /\ r.log[j].id = r.updatedProducts[2].productId
                 /\ stock[r.log[j].id] = r.stock0[r.log[j].id]
                 /\ stock[r.log[i].id] < r.stock0[r.log[i].id]


\* the step of call c from r to q is a rejected getById: nothing was read
ReadRejected(r, q) == r.pc = "get" /\ q # r /\ q.log = r.log

\* C18: a store call (the re-fetch or the write) that is rejected inside the
\* per-product loop of deductStockForPackaging or restoreStockForPackaging
\* appends one errors entry for that product and nothing else, the call does
\* not throw, the loop goes on with the next product of the map, and a call
\* that returns after it returns success = false with those errors.
C18_StoreFailureCollected ==
    [][\A c \in Calls :
          LET r == call[c]
              q == call'[c]
          IN (/\ r.op \in {"deduct", "restore"}
              /\ \/ ReadRejected(r, q)
                 \/ r.pc = "put" /\ WriteRejected(r, q))
                => /\ q.errors = Append(r.errors, FailedError(Cur(r)))
                   /\ q.pc # "thrown"
                   /\ q.idx = r.idx + 1
                   /\ stock' = stock
                   /\ r.idx < Len(r.req) => (q.pc = "get" /\ Cur(q) = r.req[r.idx + 1])
                   /\ q.pc = "done" =>
                         q.result = [success |-> FALSE, errors |-> q.errors]]_vars

\* a restoration whose write of the first product is rejected and which still
\* restores the second, and returns the one error
C18_Witness ==
    \E c \in Calls :
        LET r == call[c]
        IN /\ r.op = "restore" /\ r.pc = "done" /\ ~r.result.success
           /\ Len(r.req) >= 2
           /\ Len(r.result.errors) = 1
           /\ r.result.errors[1] = FailedError(r.req[1])
           /\ \E i, j \in Updates(r) :
                 /\ i < j
                 /\ r.log[i].id = r.req[1].id /\ ~r.log[i].ok
                 /\ r.log[j].id = r.req[2].id /\ r.log[j].ok
                 /\ stock[r.req[2].id] = r.stock0[r.req[2].id] + r.req[2].required


\* the re-fetches of call r that found less than the map requires
ShortReads(r) ==
    {g \in Gets(r) :
        r.log[g].doc.stock_quantity < r.req[ReqIndex(r.req, r.log[g].id)].required}

\* C19: validateStockForPackaging throws only when a store read was rejected
\* (the barcode lookup failed, or the re-fetch failed or found the product
\* gone); a product short of stock never makes it throw: every re-fetch moves
\* the loop on by one product, each short one adding one shortfall entry, and
\* the call, if it returns, returns valid = false exactly when it has some.
C19_ValidateThrowsOnlyOnStoreFailure ==
    \A c \in Calls :
        LET r == call[c]
        IN r.op = "validate" =>
              /\ r.pc = "thrown" =>
                    \/ r.faults > 0
                    \/ r.idx \in 1..Len(r.req) /\ Cur(r).id \notin products
              /\ r.pc \in {"get", "done"} =>
                    /\ r.idx = Cardinality(Gets(r)) + 1
                    /\ Len(r.insufficientStock) = Cardinality(ShortReads(r))
              /\ r.pc = "done" =>
                    /\ r.idx = Len(r.req) + 1
                    /\ r.result.insufficientStock = r.insufficientStock
                    /\ r.result.valid <=> (ShortReads(r) = {})

\* a validation that found one product short, went on, and then threw because
\* the next product of the map no longer exists
C19_Witness ==
    \E c \in Calls :
        LET r == call[c]
        IN /\ r.op = "validate" /\ r.pc = "thrown" /\ r.faults = 0
           /\ Len(r.insufficientStock) >= 1
           /\ r.idx >= 2 /\ Cur(r).id \notin products


\* C20: deductStockForPackaging returns success = true exactly when its errors
\* list is empty, and then, with no other writer, every product of the
\* requirement map was re-fetched and written once, ends with the stock read
\* at the re-fetch minus its required quantity, and no rollback write was
\* issued.
C20_DeductSuccess ==
    \A c \in Calls :
        LET r == call[c]
        IN (r.op = "deduct" /\ r.pc = "done") =>
              /\ r.result.success <=> (Len(r.errors) = 0)
              /\ r.result.errors = r.errors
              /\ r.result.success =>
                    /\ \A k \in 1..Len(r.req) :
                          LET p == r.req[k].id
                          IN /\ HasRead(r, p)
                             /\ stock[p] = ReadOf(r, p) - r.req[k].required
                             /\ Cardinality({u \in Updates(r) : r.log[u].id = p}) = 1
                    /\ \A u \in Updates(r) : r.log[u].phase = "loop" /\ r.log[u].ok

\* a deduction of two products that succeeded
C20_Witness ==
    \E c \in Calls :
        LET r == call[c]
        IN /\ r.op = "deduct" /\ r.pc = "done" /\ r.result.success
           /\ Len(r.req) = 2
           /\ \A k \in 1..2 :
                 /\ stock[r.req[k].id] = r.stock0[r.req[k].id] - r.req[k].required
                 /\ r.req[k].required > 0
           /\ Cardinality(Updates(r)) = 2


-----------------------------------------------------------------------------
(* Properties of the undo list and of the order of the store calls (Spec) *)

\* C21: every compensating write deductStockForPackaging issues in its
\* rollback phase is for a product whose deduction write went through earlier
\* in the same call: a product whose deduction write was rejected, or was
\* never attempted, gets none.
C21_RollbackOnlyDeducted ==
    \A c \in Calls :
        LET r == call[c]
        IN r.op = "deduct" =>
              \A k \in Updates(r) :
                 r.log[k].phase = "rollback" =>
                    \E j \in Updates(r) :
                       /\ j < k
                       /\ r.log[j].phase = "loop"
                       /\ r.log[j].id = r.log[k].id
                       /\ r.log[j].ok


\* the positions at which a call is suspended on one store call
Awaiting == {"lookup", "get", "put", "rollback"}

\* the store call a suspended call r is awaiting
Requested(r) ==
    CASE r.pc = "lookup" ->
            [fn |-> "getByBarcode", id |-> r.items[r.i].product_barcode, val |-> 0]
      [] r.pc = "get" -> [fn |-> "getById", id |-> Cur(r).id, val |-> 0]
      [] r.pc = "put" -> [fn |-> "updateStock", id |-> Cur(r).id, val |-> r.pending]
      [] OTHER ->
            [fn |-> "updateStock", id |-> r.updatedProducts[r.ridx].productId,
             val |-> r.updatedProducts[r.ridx].previousStock]

\* C22: a validate, deduct or restore call (its aggregation included) has one
\* store call in flight at a time: every step of a call that has begun is the
\* completion of the one store call it was suspended on, at most one store
\* call completes per step, the call is then suspended on the next one or has
\* returned or thrown, and a write is persisted exactly by the step in which
\* its awaited updateStock returns (none is left behind, none lands later).
C22_OneStoreCallAtATime ==
    [][\A c \in Calls :
          LET r == call[c]
              q == call'[c]
              n == Len(q.log)
          IN (q # r /\ r.pc \notin {"idle", "done", "thrown"}) =>
                /\ r.pc \in Awaiting
                /\ q.pc \in Awaiting \cup {"done", "thrown"}
                /\ n <= Len(r.log) + 1
                /\ stock' # stock =>
                      /\ Requested(r).fn = "updateStock"
                      /\ stock' = [stock EXCEPT ![Requested(r).id] = Max0(Requested(r).val)]
                /\ (/\ Requested(r).fn = "updateStock"
                    /\ n = Len(r.log) + 1
                    /\ q.log[n].ok) =>
                      /\ q.log[n].id = Requested(r).id
                      /\ stock'[Requested(r).id] = Max0(Requested(r).val)
                /\ Requested(r).fn # "updateStock" => stock' = stock]_vars

\* a deduction of three products: re-fetch and write of the first, then of the
\* second, then of the third, and nothing else
C22_Witness ==
    \E c \in Calls :
        LET r == call[c]
        IN /\ r.op = "deduct" /\ r.pc = "done" /\ r.result.success
           /\ Len(r.req) = 3 /\ Len(r.log) = 6
           /\ \A k \in 1..3 :
                 /\ r.log[2 * k - 1].kind = "get" /\ r.log[2 * k - 1].id = r.req[k].id
                 /\ r.log[2 * k].kind = "update" /\ r.log[2 * k].id = r.req[k].id
                 /\ stock[r.req[k].id] = r.log[2 * k].val


-----------------------------------------------------------------------------
(* Properties of validation followed by deduction (Spec) *)

\* the shortfall entry validateStockForPackaging makes of the k-th map entry
\* of call r, from the stock call r itself read
ShortfallOf(r, k) ==
    [barcode |-> BarcodeOf(r.req[k].id), name |-> NameOf(r.req[k].id),
     required |-> r.req[k].required, available |-> ReadOf(r, r.req[k].id)]

\* C23: when every product of the batch is read short of its requirement,
\* deductStockForPackaging reports one error per product and issues no store
\* write at all, neither a deduction nor a rollback write, and the
\* validateStockForPackaging made just before on the same batch reported each
\* product's shortfall with its required and its available quantity.
C23_AllShortNoWrite ==
    \A c \in Calls :
        LET r == call[c]
        IN (/\ r.op = "deduct" /\ r.pc = "done"
            /\ Len(r.req) >= 1
            /\ \A k \in 1..Len(r.req) :
                  HasRead(r, r.req[k].id) /\ ReadOf(r, r.req[k].id) < r.req[k].required)
              => /\ ~r.result.success
                 /\ Len(r.result.errors) = Len(r.req)
                 /\ \A k \in 1..Len(r.req) :
                       r.result.errors[k] =
                          [kind |-> "insufficient", id |-> r.req[k].id,
                           name |-> r.req[k].product.name,
                           required |-> r.req[k].required,
                           available |-> ReadOf(r, r.req[k].id)]
                 /\ Updates(r) = {}
                 /\ stock = r.stock0
                 /\ r.prior # NoResult =>
                       /\ ~r.prior.valid
                       /\ r.prior.insufficientStock =
                             [k \in 1..Len(r.req) |-> ShortfallOf(r, k)]

\* the bundle of 2 x A scanned twice, 4 required, with the highest stock the
\* model holds: one shortfall from validate, one error and no write from deduct
C23_Witness ==
    \E c \in Calls :
        LET r == call[c]
            k1 == BundleItem("k1", <<Comp("A", 2)>>)
        IN /\ r.op = "deduct" /\ r.pc = "done"
           /\ r.items = <<k1, k1>>
           /\ stock["A"] = MaxStock
           /\ r.prior # NoResult
           /\ r.prior.insufficientStock =
                 <<[barcode |-> "a1", name |-> "Alpha", required |-> 4,
                    available |-> MaxStock]>>
           /\ Len(r.result.errors) = 1
           /\ Updates(r) = {}

\* C29: with no other writer and no store failure, deductStockForPackaging
\* returns success = true exactly when the validateStockForPackaging made just
\* before on the same batch and the same store returned valid = true, and the
\* products of deduct's errors are exactly the products of validate's
\* insufficientStock list.
C29_ValidateDeductAgree ==
    \A c \in Calls :
        LET r == call[c]
            named == {r.errors[j].id : j \in 1..Len(r.errors)}
            short == {p \in ProductIds :
                         \E m \in 1..Len(r.prior.insufficientStock) :
                            r.prior.insufficientStock[m].barcode = BarcodeOf(p)}
        IN (r.op = "deduct" /\ r.pc = "done" /\ r.prior # NoResult /\ r.faults = 0)
              => /\ r.result.success <=> r.prior.valid
                 /\ named = short
                 /\ Len(r.errors) = Len(r.prior.insufficientStock)

\* one product of the batch short and another with exactly the stock required:
\* validate lists the first only, deduct's only error is about the first
C29_Witness ==
    \E c \in Calls :
        LET r == call[c]
        IN /\ r.op = "deduct" /\ r.pc = "done" /\ r.prior # NoResult /\ r.faults = 0
           /\ Len(r.req) >= 2
           /\ ~r.prior.valid /\ ~r.result.success
           /\ Len(r.errors) = 1
           /\ \E k \in 1..Len(r.req) :
                 /\ ReadOf(r, r.req[k].id) = r.req[k].required
                 /\ ErrorsAbout(r, r.req[k].id) = {}


-----------------------------------------------------------------------------
(* Properties of the values deductStockForPackaging hands to updateStock       *)
(* (SpecSigned)                                                                 *)

\* C24: every updateStock a deductStockForPackaging call makes, for a
\* deduction or for a rollback, is handed a value that is not negative, and
\* when it returns it has persisted max(0, value) as the stock_quantity of
\* that product and changed no other product.
C24_UpdateStockNeverNegative ==
    [][\A c \in Calls :
          LET r == call[c]
              q == call'[c]
          IN (r.op = "deduct" /\ r.pc \in {"put", "rollback"} /\ q # r) =>
                /\ Requested(r).val >= 0
                /\ products' = products
                /\ stock' # stock =>
                      stock' = [stock EXCEPT ![Requested(r).id] = Max0(Requested(r).val)]]_vars


-----------------------------------------------------------------------------
(* Properties of productComponentService.deleteAllForParent (SpecDeleteAll) *)

\* C25: deleteAllForParent(parent) asks the store to delete the parent's
\* edges one at a time in the order of the listing; when a delete (or the
\* listing) is rejected the call throws there: the edges before it are
\* deleted, that edge and the ones after it are still stored, and no edge of
\* another parent is ever touched; it returns only when all were deleted.
C25_DeleteAllStopsAtFailure ==
    /\ del.faults > 0 => del.pc = "thrown"
    /\ del.pc \in {"delay", "deleteEdge", "done", "thrown"} =>
          /\ {e \in components : e.parent_product_id # del.productId}
                = {e \in del.components0 : e.parent_product_id # del.productId}
          /\ del.pc = "thrown" /\ del.k = 0 => components = del.components0
          /\ del.k >= 1 =>
                /\ del.list = SelectSeq(EdgeSeq, LAMBDA e :
                                  e \in del.components0
                                  /\ e.parent_product_id = del.productId)
                /\ del.asked = [j \in 1..Len(del.asked) |-> del.list[j].id]
                /\ Len(del.asked) = IF del.pc = "thrown" THEN del.k ELSE del.k - 1
                /\ components = del.components0 \ {del.list[j] : j \in 1..(del.k - 1)}
                /\ del.pc = "done" => del.k = Len(del.list) + 1

\* a parent with two edges: the first is deleted, the delete of the second is
\* rejected and it stays, beside an edge of another parent
C25_Witness ==
    /\ del.pc = "thrown"
    /\ Len(del.list) = 2 /\ del.k = 2
    /\ del.delayMs > 0
    /\ del.list[1] \notin components
    /\ del.list[2] \in components
    /\ \E e \in components : e.parent_product_id # del.productId


-----------------------------------------------------------------------------
(* Properties of productService.getWithComponents (SpecResolve) *)

\* the stored edges whose parent is p, in listing order
DirectEdges(p) ==
    SelectSeq(EdgeSeq, LAMBDA e : e \in components /\ e.parent_product_id = p)

\* C26: getWithComponents(p) expands one level: for a bundle it returns the
\* product with one {product, quantity} per stored edge whose parent is p, the
\* product being the child as stored, having listed the edges of p only (never
\* those of a child, bundle or not) and fetched p and each child once; for a
\* product that is no bundle it returns the product alone and lists no edges.
C26_OneLevel ==
    gwc.pc = "done" =>
        LET p == gwc.productId
            edges == DirectEdges(p)
        IN IF TypeOf(p) = "bundle"
           THEN /\ gwc.result =
                      [product |-> Doc(p),
                       components |->
                          [j \in 1..Len(edges) |->
                              [product |-> Doc(edges[j].child_product_id),
                               quantity |-> edges[j].quantity]]]
                /\ gwc.lists = <<p>>
                /\ Len(gwc.gets) = 1 + Len(edges)
                /\ gwc.gets[1] = p
                /\ \A j \in 1..Len(edges) :
                      \E n \in 2..Len(gwc.gets) : gwc.gets[n] = edges[j].child_product_id
           ELSE /\ gwc.result = [product |-> Doc(p)]
                /\ gwc.lists = <<>>
                /\ gwc.gets = <<p>>

\* a bundle with two components, one of them a bundle that has a component of
\* its own: two entries are returned and only the edges of the first are listed
C26_Witness ==
    /\ gwc.pc = "done"
    /\ TypeOf(gwc.productId) = "bundle"
    /\ Len(gwc.result.components) = 2
    /\ \E j \in 1..2 :
          LET child == gwc.result.components[j].product.id
          IN /\ child # gwc.productId
             /\ TypeOf(child) = "bundle"
             /\ Len(DirectEdges(child)) > 0
    /\ gwc.lists = <<gwc.productId>>


-----------------------------------------------------------------------------
(* Properties of the branches of calculateStockRequirements (SpecAgg) *)

\* item i of the batch is a bundle whose components the caller supplied
SuppliedBundle(item) == item.is_bundle /\ item.has_components

\* C27: calculateStockRequirements looks a barcode up only for an item that is
\* no bundle or has no bundle_components, and counts such an item as one unit
\* of the product found, also when is_bundle is set; an item with is_bundle
\* set and bundle_components present adds its components and nothing else, so
\* one with an empty list adds nothing, and none triggers a lookup.
C27_BundleBranch ==
    \A c \in Calls :
        LET r == call[c]
        IN r.op = "aggregate" =>
              /\ r.pc = "lookup" => ~SuppliedBundle(r.items[r.i])
              /\ r.pc = "done" =>
                    \A p \in ProductIds :
                       LET k == ReqIndex(r.result.requirements, p)
                           singles == {i \in 1..Len(r.items) :
                                          /\ ~SuppliedBundle(r.items[i])
                                          /\ Resolves(r.items[i].product_barcode, p)}
                           bundles == {i \in 1..Len(r.items) :
                                          /\ SuppliedBundle(r.items[i])
                                          /\ SumQuantity(r.items[i].bundle_components, p, 1) > 0}
                       IN IF k = 0 THEN singles = {} /\ bundles = {}
                          ELSE /\ r.result.requirements[k].required >= Cardinality(singles)
                               /\ bundles = {} =>
                                     r.result.requirements[k].required = Cardinality(singles)

\* an item with is_bundle set and no bundle_components, counted once by its
\* barcode, next to a bundle with an empty list, which adds nothing
C27_Witness ==
    \E c \in Calls :
        LET r == call[c]
        IN /\ r.op = "aggregate" /\ r.pc = "done"
           /\ Len(r.items) = 2
           /\ r.items[1].is_bundle /\ ~r.items[1].has_components
           /\ r.items[2] = BundleItem("k4", <<>>)
           /\ Pairs(r.result.requirements) = {<<"A", 1>>}


-----------------------------------------------------------------------------
(* Properties of the order of a deduction (Spec) *)

\* the product ids the items of a batch name, in the order they name them
RECURSIVE EncounterIds(_, _)
EncounterIds(items, i) ==
    IF i > Len(items) THEN <<>>
    ELSE LET item == items[i]
             here == IF item.is_bundle /\ item.has_components
                     THEN [j \in 1..Len(item.bundle_components) |->
                              item.bundle_components[j].product.id]
                     ELSE IF \E p \in products : BarcodeOf(p) = item.product_barcode
                          THEN <<CHOOSE p \in products : BarcodeOf(p) = item.product_barcode>>
                          ELSE <<>>
         IN here \o EncounterIds(items, i + 1)

\* a sequence without the repetitions of its elements
RECURSIVE FirstOccurrences(_, _)
FirstOccurrences(ids, seen) ==
    IF ids = <<>> THEN <<>>
    ELSE IF Head(ids) \in seen THEN FirstOccurrences(Tail(ids), seen)
         ELSE <<Head(ids)>> \o FirstOccurrences(Tail(ids), seen \cup {Head(ids)})

\* the ids of the log entries of call r that satisfy Test, in log order
LogIds(r, Test(_)) ==
    LET sel == SelectSeq(r.log, Test)
    IN [n \in 1..Len(sel) |-> sel[n].id]

IsGet(e) == e.kind = "get"

IsLoopWrite(e) == e.kind = "update" /\ e.phase = "loop"

IsRollbackWrite(e) == e.kind = "update" /\ e.phase = "rollback"

\* a is b without some of its elements, b having no repetitions
OrderedWithin(a, b) ==
    /\ \A n \in 1..Len(a) : \E m \in 1..Len(b) : b[m] = a[n]
    /\ \A n, m \in 1..Len(a) :
          n < m => \E x, y \in 1..Len(b) : x < y /\ b[x] = a[n] /\ b[y] = a[m]

\* C28: deductStockForPackaging goes through the distinct products in the order
\* in which the item list first names them: its re-fetches and its deduction
\* writes follow that order, the undo list holds at most one entry per product
\* in that order, and the rollback issues one compensating write per undo
\* entry, in the order of the undo list.
C28_EncounterOrder ==
    \A c \in Calls :
        LET r == call[c]
            ids == [k \in 1..Len(r.req) |-> r.req[k].id]
            undo == [k \in 1..Len(r.updatedProducts) |-> r.updatedProducts[k].productId]
            back == LogIds(r, IsRollbackWrite)
        IN (r.op = "deduct" /\ r.pc \in {"get", "put", "rollback", "done"}) =>
              /\ ids = FirstOccurrences(EncounterIds(r.items, 1), {})
              /\ OrderedWithin(LogIds(r, IsGet), ids)
              /\ OrderedWithin(LogIds(r, IsLoopWrite), ids)
              /\ OrderedWithin(undo, ids)
              /\ back = SubSeq(undo, 1, Len(back))
              /\ (r.pc = "done" /\ ~r.result.success) => back = undo
              /\ (r.pc = "done" /\ r.result.success) => back = <<>>

\* a batch naming B and C and then A: B and C are deducted in that order, A
\* fails, and the rollback writes B and then C
C28_Witness ==
    \E c \in Calls :
        LET r == call[c]
        IN /\ r.op = "deduct" /\ r.pc = "done" /\ ~r.result.success
           /\ Len(r.req) = 3
           /\ r.req[1].id = "B" /\ r.req[2].id = "C" /\ r.req[3].id = "A"
           /\ LogIds(r, IsLoopWrite) = <<"B", "C">>
           /\ LogIds(r, IsRollbackWrite) = <<"B", "C">>


-----------------------------------------------------------------------------
(* Properties of concurrent stock writers (SpecStock) *)

\* C30: however updateStock, deductStockForPackaging (its rollback included)
\* and restoreStockForPackaging calls interleave on products whose stock starts
\* at 0 or more, every stock_quantity stored is 0 or more, and so is every
\* value a write of these calls has persisted.
C30_ConcurrentNeverNegative ==
    /\ \A p \in products : stock[p] >= 0
    /\ \A c \in Calls :
          \A k \in 1..Len(call[c].log) :
             call[c].log[k].kind \in {"update", "foreign"} => call[c].log[k].val >= 0

\* a deduction of B and C that found C at 0 after a third party had set it
\* there, and rolled back its write of B, while a restoration read B between
\* that write and the rollback and then wrote it
C30_Witness ==
    \E c, d \in Calls :
        LET r == call[c]
            q == call[d]
        IN /\ r.op = "deduct" /\ r.pc = "done" /\ ~r.result.success
           /\ HasRead(r, "B") /\ HasRead(r, "C")
           /\ r.stock0["C"] = MaxStock /\ ReadOf(r, "C") = 0
           /\ \E k \in 1..Len(r.log) : IsRollbackWrite(r.log[k]) /\ r.log[k].id = "B"
           /\ q.op = "restore" /\ q.pc = "done" /\ q.result.success
           /\ HasRead(q, "B") /\ ReadOf(q, "B") = ReadOf(r, "B") - 1
           /\ stock["B"] = ReadOf(r, "B")


-----------------------------------------------------------------------------
(* Properties of a store failure while the requirements are aggregated *)

\* the writes call r has asked of the store
Writes(r) == {k \in 1..Len(r.log) : r.log[k].kind = "update"}

\* C31: when the barcode lookup of a non-bundle item is rejected while
\* deductStockForPackaging or restoreStockForPackaging aggregates the
\* requirements, the call ends with the exception and not with a result: no
\* errors entry is made of it, the call has asked no stock write of the store
\* and every stock is what it was when the call began.
C31_AggregationFailureThrows ==
    \A c \in Calls :
        LET r == call[c]
        IN r.op \in {"deduct", "restore"} =>
              /\ (r.faults > 0 /\ r.idx = 0) => r.pc = "thrown"
              /\ r.pc = "thrown" =>
                    /\ r.faults > 0 /\ r.idx = 0
                    /\ r.errors = <<>>
                    /\ r.result = NoResult
                    /\ Writes(r) = {}
                    /\ stock = r.stock0

\* a deduction whose second item's lookup was rejected after a bundle had
\* already put a requirement into the map
C31_Witness ==
    \E c \in Calls :
        LET r == call[c]
        IN /\ r.op = "deduct" /\ r.pc = "thrown"
           /\ r.i = 2 /\ Len(r.req) > 0
           /\ Writes(r) = {}


-----------------------------------------------------------------------------
(* Properties of the order of the deletes of productService.delete *)

\* C32: productService.delete(p) asks for the delete of the product document
\* only after every listed component edge has been deleted, asks at most once
\* for the delete of any one edge, also of an edge from p to p, and when a
\* delete of an edge is rejected the call throws with p still stored.
C32_EdgesOnceThenProduct ==
    /\ del.pc \in {"deleteProduct", "done"} =>
          /\ Len(del.asked) = Len(del.list)
          /\ \A k \in 1..Len(del.list) : del.list[k] \notin components
    /\ del.pc \in {"listParents", "listChildren", "deleteComponent", "deleteProduct",
                   "thrown"} => del.productId \in products
    /\ \A i, j \in 1..Len(del.asked) : del.asked[i] = del.asked[j] => i = j


-----------------------------------------------------------------------------
(* Properties of the job dispatcher (SpecDispatch) *)

\* the request lacks what the dispatcher requires of it
Deficient(b) ==
    \/ b.kind \in {"invalid", "null"}
    \/ /\ b.kind = "object"
       /\ \/ b.action = Missing
          \/ b.userId = Missing
          \/ b.action = "import" /\ b.fileId = Missing
          \/ b.action = "report-export" /\ (b.startDate = Missing \/ b.endDate = Missing)
          \/ b.action \notin VALID_ACTIONS

\* C33: the job dispatcher creates a job only for a request that has passed
\* the whole validation: a request whose body is not valid JSON, has no action
\* or no userId, asks for import without fileId, for report-export without
\* startDate or endDate, or for an action outside import, export and
\* report-export is answered with 400 and no job is created for it; a job just
\* created has status pending, and every job has one of the three actions.
C33_ValidatedBeforeJob ==
    /\ (disp.pc # "idle" /\ Deficient(disp.body)) =>
          /\ disp.pc = "done"
          /\ disp.response.code = 400
          /\ jobs = disp.jobs0
    /\ disp.pc = "trigger" =>
          /\ jobs = Append(disp.jobs0, jobs[disp.jobId])
          /\ jobs[disp.jobId].status = "pending"
    /\ \A k \in 1..Len(jobs) : jobs[k].action \in VALID_ACTIONS


\* the execution has ended after creating a job whose trigger threw
TriggerThrew == disp.pc = "done" /\ disp.jobId > 0 /\ disp.triggered = <<>>

\* the execution has ended after triggering the task of the job it created
TriggerReturned == disp.pc = "done" /\ disp.jobId > 0 /\ disp.triggered # <<>>

\* the job the execution created is stored as failed, and the response says so
ReportedFailed ==
    /\ jobs[disp.jobId].status = "failed"
    /\ jobs[disp.jobId].error # Missing
    /\ jobs[disp.jobId].completed_at # Missing
    /\ disp.response = [code |-> 500, success |-> FALSE,
                        error |-> "Failed to queue task", jobId |-> disp.jobId]

\* a task is triggered only for the job the execution has created, and after a
\* trigger that returned the response is success with status queued while the
\* stored status is still pending
TriggeredAfterJob ==
    /\ \A k \in 1..Len(disp.triggered) :
          /\ disp.triggered[k].jobId = disp.jobId
          /\ disp.jobId \in 1..Len(jobs)
    /\ Len(disp.triggered) <= 1
    /\ TriggerReturned =>
          /\ disp.response = [code |-> 200, success |-> TRUE, jobId |-> disp.jobId,
                              action |-> disp.body.action, status |-> "queued"]
          /\ jobs[disp.jobId].status = "pending"
          /\ disp.triggered[1].task =
                CASE disp.body.action = "import" -> "product-import"
                  [] disp.body.action = "export" -> "product-export"
                  [] OTHER -> "report-export"

\* C34 as stated: a task is triggered only after its job exists; whenever the
\* trigger fails the job is stored as failed with an error and completed_at
\* and the response is 500 with success=false and the jobId; when it succeeds
\* the response is success=true with status queued and the stored status stays
\* pending.
C34_TriggerOutcomeAlways ==
    /\ TriggeredAfterJob
    /\ TriggerThrew => ReportedFailed

\* C34: a task is triggered only after its job exists; when the trigger fails
\* and the update of the job is accepted, the job is stored as failed with an
\* error and completed_at and the response is 500 with success=false and the
\* jobId; when that update is itself rejected the job stays pending and the
\* response is 500 with success=false and no jobId; when the trigger succeeds
\* the response is success=true with status queued and the stored status stays
\* pending.
C34_TriggerOutcome ==
    /\ TriggeredAfterJob
    /\ TriggerThrew =>
          IF disp.faults = 0 THEN ReportedFailed
          ELSE /\ jobs[disp.jobId].status = "pending"
               /\ jobs[disp.jobId].completed_at = Missing
               /\ disp.response.code = 500
               /\ ~disp.response.success
               /\ "jobId" \notin DOMAIN disp.response

\* a report-export job whose trigger threw and was stored as failed, after an
\* earlier import job whose trigger returned
C34_Witness ==
    /\ TriggerThrew
    /\ disp.faults = 0
    /\ disp.jobId = 2
    /\ ReportedFailed
    /\ jobs[2].action = "report-export"
    /\ jobs[1].action = "import" /\ jobs[1].status = "pending"


-----------------------------------------------------------------------------
(* Properties of the report-export task (SpecReport) *)

\* an attempt of run is under way or has just ended
InAttempt == task.pc \notin {"idle", "markJobFailed", "givenUp"}

AttemptOver == task.pc \in {"returned", "threw"}

\* the terminal status writes the attempt has asked for, and those accepted
Terminal == {k \in 1..Len(task.log) :
                task.log[k].kind = "status" /\ task.log[k].status \in {"completed", "failed"}}

Accepted == {k \in Terminal : task.log[k].ok}

\* the attempt asked for the processing write before any read, completed_at is
\* stored with completed and failed and not before, and an attempt on an empty
\* range that returned has stored records 0, items 0 and no result file
ProcessingFirst ==
    /\ (InAttempt /\ task.log # <<>>) =>
          /\ task.log[1].kind = "status" /\ task.log[1].status = "processing"
          /\ \A k \in 2..Len(task.log) :
                task.log[k].kind = "read" => task.log[1].ok
    /\ InAttempt =>
          /\ jobs[1].status \in {"completed", "failed"} => jobs[1].completed_at # Missing
          /\ (task.attempt = 1 /\ Accepted = {}) => jobs[1].completed_at = Missing
    /\ (task.pc = "returned" /\ task.data = <<>>) =>
          /\ jobs[1].status = "completed"
          /\ jobs[1].stats = Stringify([records |-> 0, items |-> 0])
          /\ jobs[1].result_file_id = Missing
          /\ task.uploads = 0

\* an attempt that returned has completed as its one terminal write
ReturnedCompleted ==
    task.pc = "returned" =>
        /\ Terminal = {Len(task.log)}
        /\ task.log[Len(task.log)].status = "completed" /\ task.log[Len(task.log)].ok
        /\ jobs[1].status = "completed"

\* C35 as stated: every attempt asks for the processing write before it reads
\* any packaging data and ends with exactly one terminal status stored:
\* completed when the attempt finished without error (for an empty range with
\* records 0, items 0 and no result file), failed otherwise, after which the
\* error is thrown again; completed_at is written with completed and failed
\* only.
C35_OneTerminalWriteAlways ==
    /\ ProcessingFirst
    /\ ReturnedCompleted
    /\ task.pc = "threw" =>
          /\ Accepted = {Len(task.log)}
          /\ task.log[Len(task.log)].status = "failed"
          /\ jobs[1].status = "failed"

\* C35: every attempt asks for the processing write before it reads any
\* packaging data. An attempt that finished without error has completed as its
\* one terminal write (for an empty range with records 0, items 0 and no result
\* file). Any other attempt ends with a failed write, which follows a rejected
\* completed write when that was the error; when the failed write is accepted
\* the job is failed and the error is thrown again, and when it is rejected the
\* attempt ends with that rejection and no terminal status of its own stored.
\* completed_at is written with completed and failed only.
C35_OneTerminalWrite ==
    /\ ProcessingFirst
    /\ ReturnedCompleted
    /\ task.pc = "threw" =>
          LET n == Len(task.log)
          IN /\ n \in Terminal
             /\ task.log[n].status = "failed"
             /\ Terminal \subseteq {n - 1, n}
             /\ (n - 1) \in Terminal =>
                   task.log[n - 1].status = "completed" /\ ~task.log[n - 1].ok
             /\ Accepted \subseteq {n}
             /\ IF task.log[n].ok
                THEN jobs[1].status = "failed" /\ task.error # Missing
                ELSE Accepted = {} /\ task.error = "store"

\* a second attempt that read two records and their items, uploaded the
\* workbook, had its completed write rejected and stored failed
C35_Witness ==
    /\ task.pc = "threw"
    /\ task.attempt = 2
    /\ Len(task.allRecords) = 2
    /\ Len(task.uniqueBarcodes) = 2
    /\ task.uploads = 1
    /\ Len(task.log) >= 2
    /\ task.log[Len(task.log) - 1].kind = "status"
    /\ task.log[Len(task.log) - 1].status = "completed"
    /\ task.log[Len(task.log)].ok
    /\ jobs[1].status = "failed"


\* the run has asked for at most maxAttempts attempts, the job is completed
\* only after an upload or an empty range, and onFailure never throws
CompletedForCause ==
    /\ task.attempt <= maxAttempts
    /\ jobs[1].status = "completed" => (task.uploads > 0 \/ task.emptyRuns > 0)
    /\ jobs[1].status = "completed" => task.pc = "returned"
    /\ task.pc \in {"markJobFailed", "givenUp"} => task.attempt = maxAttempts
    /\ task.pc # "onFailureThrew"

\* no step of the task changes a completed job
CompletedIsFinal == jobs[1].status = "completed" => jobs' = jobs

\* C36 as stated: one job is attempted at most 3 times; its status is
\* completed only if an attempt uploaded the report or found no records; a
\* completed job is never changed again by the task; and when every attempt
\* has failed, onFailure returns without throwing, also when its own write is
\* rejected, and the job is failed.
C36_RetriesEndFailedAlways ==
    /\ CompletedForCause
    /\ task.pc = "givenUp" => jobs[1].status = "failed"

\* C36: one job is attempted at most 3 times; its status is completed only if
\* an attempt uploaded the report or found no records; a completed job is
\* never changed again by the task; and when every attempt has failed,
\* onFailure returns without throwing, also when its own write is rejected,
\* and the job is failed if the failed write of the last attempt or that of
\* onFailure was accepted; when both were rejected the job keeps the status it
\* had, which is not completed.
C36_RetriesEndFailed ==
    /\ [](/\ CompletedForCause
          /\ task.pc = "givenUp" =>
                LET n == Len(task.log)
                IN /\ n >= 2
                   /\ task.log[n].status = "failed" /\ task.log[n - 1].status = "failed"
                   /\ (task.log[n].ok \/ task.log[n - 1].ok) => jobs[1].status = "failed"
                   /\ jobs[1].status # "completed")
    /\ [][CompletedIsFinal]_vars

\* three attempts failed on an unparsable scanned_at, each storing failed, and
\* the write of onFailure was rejected
C36_Witness ==
    /\ task.pc = "givenUp"
    /\ task.attempt = maxAttempts
    /\ task.badDate
    /\ ~task.log[Len(task.log)].ok
    /\ task.log[Len(task.log) - 1].ok
    /\ jobs[1].status = "failed"
    /\ jobs[1].error = "Invalid time value"


-----------------------------------------------------------------------------
(* Properties of the font loader (SpecFont) *)

\* the fetch sequences under way
Pending == {n \in 1..Len(font.promises) : font.promises[n].state = "pending"}

\* the callers whose loadChineseFont went through the promise n
Sharing(n) == {c \in FontCallers : font.callers[c].promise = n}

\* C37: font loading is single-flight. While no font is cached at most one
\* fetch sequence is under way, it is the one fontLoadPromise holds, every
\* caller that is waiting waits for a promise getFontBase64 made, the callers
\* that arrive while a sequence is under way share its promise and each gets
\* what that sequence resolved with; and no fetch is issued once a font is
\* cached.
C37_SingleFlight ==
    /\ Cardinality(Pending) <= 1
    /\ \A n \in Pending : font.fontLoadPromise = n /\ font.cachedFontBase64 = Null
    /\ \A c \in FontCallers :
          LET r == font.callers[c]
          IN /\ r.pc = "awaiting" => r.promise \in 1..Len(font.promises)
             /\ (r.pc = "done" /\ r.promise # 0) =>
                   /\ font.promises[r.promise].state = "resolved"
                   /\ r.fontBase64 = font.promises[r.promise].value
                   /\ r.result = (r.fontBase64 # Null)
    /\ \A k \in 1..Len(font.fetches) : ~font.fetches[k].cached

\* two callers that shared one sequence, which skipped the first source and
\* got the font from the second, and a third caller that came after and was
\* given the cached font without a fetch
C37_Witness ==
    /\ Cardinality(Sharing(1)) = 2
    /\ \A c \in Sharing(1) :
          font.callers[c].pc = "done" /\ font.callers[c].result
    /\ \E c \in FontCallers :
          /\ font.callers[c].pc = "done" /\ font.callers[c].promise = 0
          /\ font.callers[c].fontBase64 = font.cachedFontBase64
          /\ font.callers[c].fontBase64 # Null
    /\ Len(font.promises) = 1
    /\ Len(font.fetches) = 2


\* the sources the sequence of promise n has fetched, in the order of the
\* fetches
FetchedBy(n) ==
    LET own == SelectSeq(font.fetches, LAMBDA e : e.promise = n)
    IN [k \in 1..Len(own) |-> own[k].url]

\* the sequence of promise n skipped every source before the last it answered
SkippedBefore(n, last) ==
    \A k \in 1..(last - 1) : font.promises[n].answers[k] = "skipped"

\* C38: getFontBase64 fetches the sources in their listed order, skipping a
\* source whose fetch failed or timed out, whose response was not ok or whose
\* body was under 1,000,000 bytes, and caches and returns the first font of
\* 1,000,000 bytes or more; when every source has been skipped it returns
\* null, nothing is cached by it and fontLoadPromise is null again, so that the
\* next call starts a fetch sequence of its own.
C38_SourcesInOrder ==
    /\ \A n \in 1..Len(font.promises) :
          LET q == font.promises[n]
          IN /\ FetchedBy(n) = [k \in 1..q.i |-> k]
             /\ q.i \in 1..Len(fontUrls)
             /\ q.state = "pending" => Len(q.answers) = q.i - 1 /\ SkippedBefore(n, q.i)
             /\ (q.state = "resolved" /\ q.value # Null) =>
                   /\ Len(q.answers) = q.i /\ SkippedBefore(n, q.i)
                   /\ q.answers[q.i] = "font"
                   /\ q.value.id = fontUrls[q.i]
                   /\ q.value.length >= 4 * ((minFontBytes + 2) \div 3)
                   /\ font.cachedFontBase64 = q.value
             /\ (q.state = "resolved" /\ q.value = Null) =>
                   /\ q.i = Len(fontUrls)
                   /\ Len(q.answers) = Len(fontUrls) /\ SkippedBefore(n, Len(fontUrls) + 1)
                   /\ font.fontLoadPromise # n
    /\ font.cachedFontBase64 # Null =>
          \E n \in 1..Len(font.promises) : font.promises[n].value = font.cachedFontBase64
    /\ (font.cachedFontBase64 = Null /\ Pending = {}) => font.fontLoadPromise = 0

\* a first sequence that every source failed, and after it a second sequence,
\* started by a later call, that got the font from the last source
C38_Witness ==
    /\ Len(font.promises) = 2
    /\ font.promises[1].state = "resolved" /\ font.promises[1].value = Null
    /\ FetchedBy(1) = <<1, 2, 3>>
    /\ font.promises[2].state = "resolved"
    /\ FetchedBy(2) = <<1, 2, 3>>
    /\ font.cachedFontBase64 = font.promises[2].value
    /\ font.cachedFontBase64 # Null
    /\ \E c \in Sharing(1) : font.callers[c].pc = "done" /\ ~font.callers[c].result
    /\ \E c \in Sharing(2) : font.callers[c].pc = "done" /\ font.callers[c].result

====
